---- MODULE Spec2Model ----
(***************************************************************************)
(* Verification model of the Joyboy telecom package simulator:             *)
(*   - the replicate simulator and the Monte Carlo aggregator              *)
(*     (backend/simulator/monte_carlo.py),                                 *)
(*   - the tiered Bayesian search orchestrator                             *)
(*     (backend/simulator/bayesian_opt.py).                                *)
(*                                                                         *)
(* Numbers.  The program computes in floating point; the model computes    *)
(* exactly, in integers:                                                   *)
(*   - money, data (GB) and voice (minutes) are integers of a grid; where   *)
(*     the program rounds to two decimals or floors at 0.01 (the offer     *)
(*     ladder, the sensitivity steps) one step of the grid is 0.01;        *)
(*   - probabilities and shares (pct_*, pi_*, renewal rates) are integers  *)
(*     in thousandths, the beta coefficients, sigma and the utility are in *)
(*     tenths, beta_price is in hundredths (5 stands for 0.05);            *)
(*   - a discounted amount profit / (1+r)^days is kept as the integer      *)
(*     profit * (1+r)^(HorizonCap - days), i.e. every total_profit is the  *)
(*     program's value times the constant (1+r)^HorizonCap;                *)
(*   - a mean over M samples is kept as the sum (mean * M), a variance as  *)
(*     M * SUM x^2 - (SUM x)^2 (variance * M^2).                           *)
(* The random generator np.random.default_rng(seed) is a deterministic     *)
(* stream determined by its seed; it is modelled by a hash of the seed and *)
(* of the position in the stream.                                          *)
(*                                                                         *)
(* Evaluation.  A value that is used more than once is bound by a          *)
(* quantifier, CHOOSE r \in {F(v) : v \in {e}} : TRUE, which is F(e) with   *)
(* e evaluated once.                                                       *)
(***************************************************************************)
EXTENDS Integers, Sequences, FiniteSets, TLC

\* ------------------------------------------------------------------ state

VARIABLES
    \* the Simulate session: the offer and the ParameterSet under study
    offer, parameters,
    \* the Simulate call in progress: its position, its arguments
    \* [M, base_seed, n_jobs], the state of each replicate task, the slot of
    \* each replicate in the list Parallel returns, and what the call returned
    simPc, call, task, outcome, response,
    \* history: the order in which the tasks of the call ended, the number of
    \* calls made, and the first call that ended (its arguments, whether its
    \* tasks ended in index order, and how it ended)
    order, nCalls, first,
    \* the SearchOptimalOffer call: its position, its arguments [bounds,
    \* params, M, base_seed, n_iterations, n_initial], the index (1..3) of the
    \* tier of the loop, and the search space of that tier
    searchPc, args, tierIdx, space,
    \* the black-box minimizer: which of its suggestion streams it follows
    minimizer,
    \* the locals of the tier being searched
    evaluations, best_profit_so_far, call_counter,
    \* the locals of bayesian_optimize, and what it returned or raised
    all_offers, global_best_profit, global_best_result, global_evaluations,
    searchResult,
    \* history: how each tier ended, the sub-range each tier searched and the
    \* point the minimizer returned for it
    tierStatus, tierSpace, returned,
    \* the GenerateOfferTiers call (run_monte_carlo_offers): its position, its
    \* arguments [pkg, params, M, base_seed], the index of the ladder entry
    \* of the loop, the offers collected, and the list returned
    ladderPc, ladderArgs, ladderIdx, offers, ladderResult,
    \* the ComputeSensitivity call (compute_sensitivity): its position, its
    \* arguments [pkg, params, M, base_seed], the index of the parameter of
    \* the loop, the records collected, and the list returned
    sensPc, sensArgs, sensIdx, sensResults, sensResult,
    \* one replicate (run_single_simulation) followed through its loop: its
    \* position, its arguments [pkg, params, seed, n_periods], the loop index,
    \* the loop state [n_active, k, total, cum, period_data, stop], and the
    \* result returned
    repPc, repArgs, repIdx, repLoop, repResult,
    \* the reduction of run_monte_carlo applied to a list of replicate
    \* results: its position, its arguments [results, params, M, base_seed],
    \* and the statistics returned
    aggPc, aggArgs, aggResult

simVars == <<offer, parameters, simPc, call, task, outcome, response, order, nCalls, first>>

searchVars == <<searchPc, args, tierIdx, space, minimizer, evaluations,
                best_profit_so_far, call_counter, all_offers, global_best_profit,
                global_best_result, global_evaluations, searchResult,
                tierStatus, tierSpace, returned>>

ladderVars == <<ladderPc, ladderArgs, ladderIdx, offers, ladderResult>>

\* the variables of the calls other than Simulate and SearchOptimalOffer
sensVars == <<sensPc, sensArgs, sensIdx, sensResults, sensResult>>

repVars == <<repPc, repArgs, repIdx, repLoop, repResult>>

aggVars == <<aggPc, aggArgs, aggResult>>

callVars == <<ladderVars, sensVars, repVars, aggVars>>

vars == <<simVars, searchVars, callVars>>

\* ---------------------------------------------------------------- bounds

\* largest market size N0 a scenario uses
MaxN0 == 2
\* largest replicate count M of a Simulate call
MaxM == 2
\* base seeds are 0..MaxSeed
MaxSeed == 1
\* largest parallelism degree (joblib n_jobs) of a Simulate call
MaxJobs == 2
\* number of Simulate calls made one after the other
MaxCalls == 2
\* largest simulation horizon T_days
MaxTDays == 2
\* largest validity_days of an offer
MaxValidity == 5
\* the suggestion streams of the minimizer are 0..MaxStream
MaxStream == 1

\* ------------------------------------------------------- program constants

\* seed stride of the replicates and of the search candidates
SeedStride == 997

\* ---------------------------------------------------------------- helpers

Max(a, b) == IF a >= b THEN a ELSE b

Min(a, b) == IF a <= b THEN a ELSE b

RECURSIVE Pow(_, _)
Pow(b, e) == IF e <= 0 THEN 1 ELSE b * Pow(b, e - 1)

\* s[1] + ... + s[n]
RECURSIVE SumTo(_, _)
SumTo(s, n) ==
    IF n = 0 THEN 0
    ELSE CHOOSE r \in {s[n] + SumTo(s, m) : m \in {n - 1}} : TRUE

SumSeq(s) == CHOOSE r \in {SumTo(v, Len(v)) : v \in {s}} : TRUE

\* a fault raised by the program: an exception of class kind
Fault(kind, where) == [fault |-> kind, at |-> where]

IsFault(x) == "fault" \in DOMAIN x

\* ------------------------------------------------------- random generator

\* the k-th draw (k = 0, 1, ...) of the stream np.random.default_rng(seed),
\* in 0..15: a function of the seed and of the position in the stream
Draw(seed, k) ==
    LET x == (seed * 13 + k * 7 + 3) % 251
    IN  ((x * x * 5 + x * 3 + 7) \div 8) % 16

\* rng.normal(0, sigma): one draw, one of -sigma, 0, sigma
Normal(sigma, u) == sigma * ((u % 3) - 1)

\* one Bernoulli trial of probability p thousandths
Bernoulli(p, u) == u * 1000 < p * 16

\* rng.binomial(n, p): the successes among n trials, one draw each,
\* the draws being k, k+1, ..., k+n-1
Binomial(n, p, seed, k) ==
    Cardinality({i \in 0..(n - 1) : Bernoulli(p, Draw(seed, k + i))})

\* rng.lognormal(mu, sigma): a positive usage amount
LogNormal(mu, sigma, u) == Max(1, mu + sigma * (u % 3))

\* are p / SUM p probabilities rng.choice accepts? (not NaN, none negative)
ChoiceOk(p) ==
    LET s == p[1] + p[2] + p[3]
    IN  /\ s # 0
        /\ \A j \in 1..3 : (s > 0 /\ p[j] >= 0) \/ (s < 0 /\ p[j] <= 0)

\* rng.choice(3, p = p / SUM p): the category (0, 1, 2) one draw selects
Choice3(p, u) ==
    LET s  == p[1] + p[2] + p[3]
        a  == IF s < 0 THEN -s ELSE s
        q1 == IF p[1] < 0 THEN -p[1] ELSE p[1]
        q2 == IF p[2] < 0 THEN -p[2] ELSE p[2]
    IN  IF u * a < q1 * 16 THEN 0
        ELSE IF u * a < (q1 + q2) * 16 THEN 1
        ELSE 2

\* ------------------------------------------------------------ data model

\* SimParams with the defaults of the request schema, in model units
DefaultParams ==
    [N0 |-> MaxN0, T_days |-> MaxTDays, discount_rate |-> 1,
     beta_data |-> 5, beta_voice |-> 3, beta_price |-> 5, beta_validity |-> 2,
     sigma |-> 10,
     use_mixture |-> TRUE,
     mu_light |-> 1, sigma_light |-> 1, pi_light |-> 400,
     mu_medium |-> 2, sigma_medium |-> 1, pi_medium |-> 400,
     mu_heavy |-> 4, sigma_heavy |-> 1,
     mu_voice |-> 3, sigma_voice |-> 1,
     c_gb_3g |-> 2, c_gb_4g |-> 5, c_gb_5g |-> 10,
     pct_3g |-> 300, pct_4g |-> 500, pct_5g |-> 200,
     c_min |-> 1,
     p_over_data |-> 15, p_over_voice |-> 2,
     enable_renewal |-> TRUE, base_renewal_rate |-> 600, renewal_decay |-> 50,
     risk_lambda |-> 1]

\* SimParams.pi_heavy
pi_heavy(params) == Max(0, 1000 - params.pi_light - params.pi_medium)

\* PackageSpec (the label plays no part in the simulation)
PackageSpec(data_gb, voice_min, validity_days, price) ==
    [data_gb |-> data_gb, voice_min |-> voice_min,
     validity_days |-> validity_days, price |-> price]

\* ------------------------------------------------------------ acquisition

\* math.log1p and math.log on the integer grid: the position of the highest
\* binary digit (log-saturating, 0 at 1)
RECURSIVE Log(_)
Log(n) == IF n <= 1 THEN 0 ELSE 1 + Log(n \div 2)

_value_of_data(data_gb) == Log(1 + data_gb)

_value_of_voice(voice_min) == Log(1 + voice_min)

\* 1 / (1 + exp(-utility)) clipped to [0.001, 0.999], in thousandths,
\* utility in tenths
PJoin(utility) ==
    IF utility <= -70 THEN 1
    ELSE IF utility <= -30 THEN 47
    ELSE IF utility <= -10 THEN 269
    ELSE IF utility < 10 THEN 500
    ELSE IF utility < 30 THEN 731
    ELSE IF utility < 70 THEN 953
    ELSE 999

\* the utility before the noise draw, in tenths
Utility(pkg, params) ==
    params.beta_data * _value_of_data(pkg.data_gb)
    + params.beta_voice * _value_of_voice(pkg.voice_min)
    + params.beta_validity * Log(Max(1, pkg.validity_days))
    - (params.beta_price * pkg.price) \div 10

\* the initial buyers; consumes the draws 0 .. N0
_compute_acquisition(pkg, params, seed) ==
    LET eps == Normal(params.sigma, Draw(seed, 0))
    IN  Binomial(params.N0, PJoin(Utility(pkg, params) + eps), seed, 1)

\* ---------------------------------------------------------- usage sampling

\* the usage of the users whose segments are seg: the segments draw their
\* usage one after the other, from draw k on
MixtureUsage(seg, params, seed, k) ==
    LET mus == <<params.mu_light, params.mu_medium, params.mu_heavy>>
        sgs == <<params.sigma_light, params.sigma_medium, params.sigma_heavy>>
        rank(i) == Cardinality({j \in 1..Len(seg) :
                       seg[j] < seg[i] \/ (seg[j] = seg[i] /\ j < i)})
    IN  [i \in 1..Len(seg) |->
            LogNormal(mus[seg[i] + 1], sgs[seg[i] + 1], Draw(seed, k + rank(i)))]

\* per-user data usage of n_users users, the draws starting at k:
\* [usage, k] with k the next unused draw, or a fault
_sample_data_usage(n_users, params, seed, k) ==
    IF n_users = 0 THEN [usage |-> <<>>, k |-> k]
    ELSE IF params.use_mixture
    THEN LET pis == <<params.pi_light, params.pi_medium, pi_heavy(params)>>
         IN  IF ~ChoiceOk(pis) THEN Fault("ValueError", "_sample_data_usage")
             ELSE [usage |-> CHOOSE r \in
                                {MixtureUsage(seg, params, seed, k + n_users) :
                                    seg \in {[i \in 1..n_users |->
                                                Choice3(pis, Draw(seed, k + i - 1))]}} : TRUE,
                   k |-> k + 2 * n_users]
    ELSE [usage |-> [i \in 1..n_users |->
                        LogNormal(params.mu_medium, params.sigma_medium,
                                  Draw(seed, k + i - 1))],
          k |-> k + n_users]

\* per-user voice usage
_sample_voice_usage(n_users, params, seed, k) ==
    IF n_users = 0 THEN [usage |-> <<>>, k |-> k]
    ELSE [usage |-> [i \in 1..n_users |->
                        LogNormal(params.mu_voice, params.sigma_voice,
                                  Draw(seed, k + i - 1))],
          k |-> k + n_users]

\* ------------------------------------------------------------ network cost

\* the operator's data delivery cost: [cost, k], or a fault
_compute_network_data_cost(data_usage, params, seed, k) ==
    LET n_users == Len(data_usage)
        pcts == <<params.pct_3g, params.pct_4g, params.pct_5g>>
        costs_per_gb == <<params.c_gb_3g, params.c_gb_4g, params.c_gb_5g>>
    IN  IF n_users = 0 THEN [cost |-> 0, k |-> k]
        ELSE IF ~ChoiceOk(pcts) THEN Fault("ValueError", "_compute_network_data_cost")
        ELSE [cost |-> SumSeq([i \in 1..n_users |->
                                  data_usage[i]
                                  * costs_per_gb[Choice3(pcts, Draw(seed, k + i - 1)) + 1]]),
              k |-> k + n_users]

\* -------------------------------------------------------------- one period

\* np.maximum(usage - allowance, 0).sum()
Overage(usage, allowance) ==
    SumSeq([i \in 1..Len(usage) |-> Max(usage[i] - allowance, 0)])

\* the revenue, cost and profit of a period, from the sampled usage
\* (data, voice: [usage, k]) and the data delivery cost (data_cost: [cost, k])
PeriodResult(n_active, pkg, params, data, voice, data_cost) ==
    IF IsFault(data_cost) THEN data_cost
    ELSE
    LET r_package == n_active * pkg.price
        r_data_overage == IF pkg.data_gb > 0
                          THEN Overage(data.usage, pkg.data_gb) * params.p_over_data
                          ELSE 0
        r_voice_overage == IF pkg.voice_min > 0
                           THEN Overage(voice.usage, pkg.voice_min) * params.p_over_voice
                           ELSE 0
        revenue == r_package + r_data_overage + r_voice_overage
        voice_cost == SumSeq(voice.usage) * params.c_min
        cost == data_cost.cost + voice_cost
    IN  CHOOSE r \in {[revenue |-> rv, cost |-> c, profit |-> rv - c, k |-> data_cost.k] :
                         rv \in {revenue}, c \in {cost}} : TRUE

\* the period once the data usage is sampled: the voice usage, then the cost
PeriodOfData(n_active, pkg, params, seed, data) ==
    IF IsFault(data) THEN data
    ELSE CHOOSE r \in
        {CHOOSE q \in
            {PeriodResult(n_active, pkg, params, data, voice, data_cost) :
                data_cost \in {_compute_network_data_cost(data.usage, params, seed, voice.k)}} :
            TRUE :
         voice \in {IF pkg.voice_min > 0
                    THEN _sample_voice_usage(n_active, params, seed, data.k)
                    ELSE [usage |-> [i \in 1..n_active |-> 0], k |-> data.k]}} : TRUE

\* one validity period: [revenue, cost, profit, k], or a fault
_run_single_period(n_active, pkg, params, seed, k) ==
    IF n_active = 0 THEN [revenue |-> 0, cost |-> 0, profit |-> 0, k |-> k]
    ELSE CHOOSE r \in
        {PeriodOfData(n_active, pkg, params, seed, data) :
            data \in {IF pkg.data_gb > 0
                      THEN _sample_data_usage(n_active, params, seed, k)
                      ELSE [usage |-> [i \in 1..n_active |-> 0], k |-> k]}} : TRUE

\* ------------------------------------------------------------ one replicate

\* an upper bound of days_elapsed, for the exact discounted amounts
HorizonCap == Max(MaxTDays, MaxValidity)

\* (mutant) the profit is not discounted
MutDiscounted(profit, params, days_elapsed) ==
    profit * Pow(1 + params.discount_rate, HorizonCap)

\* profit / (1 + discount_rate) ** days_elapsed, times (1 + r)^HorizonCap
Discounted(profit, params, days_elapsed) ==
    profit * Pow(1 + params.discount_rate, HorizonCap - days_elapsed)

\* (mutant) the periods are counted whether or not renewal is enabled
MutNPeriods(pkg, params) == Max(1, params.T_days \div Max(1, pkg.validity_days))

\* the number of validity periods of a replicate
NPeriods(pkg, params) ==
    IF params.enable_renewal
    THEN Max(1, params.T_days \div Max(1, pkg.validity_days))
    ELSE 1

\* (mutant) the decay is counted from the first renewal on
MutRenewalRate(params, period_idx) ==
    Min(1000, Max(0, params.base_renewal_rate - params.renewal_decay * (period_idx + 1)))

\* the renewal probability used after the period of loop index period_idx
RenewalRate(params, period_idx) ==
    Min(1000, Max(0, params.base_renewal_rate - params.renewal_decay * period_idx))

PeriodRecord(period, active_users, r, cumulative_profit) ==
    [period |-> period, active_users |-> active_users, revenue |-> r.revenue,
     cost |-> r.cost, profit |-> r.profit, cumulative_profit |-> cumulative_profit]

\* (mutant) the PeriodRecord counts the customers left after the renewal
MutPeriodNext(pkg, params, period_idx, st, r, renew, n_next) ==
    [n_active |-> n_next,
     k |-> IF renew THEN r.k + st.n_active ELSE r.k,
     total |-> st.total
               + Discounted(r.profit, params, (period_idx + 1) * pkg.validity_days),
     cum |-> st.cum + r.profit,
     period_data |-> Append(st.period_data,
                            PeriodRecord(period_idx + 1, n_next, r,
                                         st.cum + r.profit)),
     stop |-> renew /\ n_next = 0]

\* the loop state after the period of loop index period_idx, whose result is
\* r and after which n_next customers stay: the totals, the PeriodRecord, and
\* stop, the renewal's break
PeriodNext(pkg, params, period_idx, st, r, renew, n_next) ==
    [n_active |-> n_next,
     k |-> IF renew THEN r.k + st.n_active ELSE r.k,
     total |-> st.total
               + Discounted(r.profit, params, (period_idx + 1) * pkg.validity_days),
     cum |-> st.cum + r.profit,
     period_data |-> Append(st.period_data,
                            PeriodRecord(period_idx + 1, st.n_active, r,
                                         st.cum + r.profit)),
     stop |-> renew /\ n_next = 0]

\* (mutant) the renewal draws among the whole market
MutPeriodRenewal(pkg, params, seed, n_periods, period_idx, st, r) ==
    IF IsFault(r) THEN r
    ELSE CHOOSE nx \in
        {PeriodNext(pkg, params, period_idx, st, r, renew, n_next) :
            renew \in {params.enable_renewal /\ period_idx < n_periods - 1},
            n_next \in {IF params.enable_renewal /\ period_idx < n_periods - 1
                        THEN Binomial(params.N0, RenewalRate(params, period_idx),
                                      seed, r.k)
                        ELSE st.n_active}} : TRUE

\* the renewal after the period of loop index period_idx
PeriodRenewal(pkg, params, seed, n_periods, period_idx, st, r) ==
    IF IsFault(r) THEN r
    ELSE CHOOSE nx \in
        {PeriodNext(pkg, params, period_idx, st, r, renew, n_next) :
            renew \in {params.enable_renewal /\ period_idx < n_periods - 1},
            n_next \in {IF params.enable_renewal /\ period_idx < n_periods - 1
                        THEN Binomial(st.n_active, RenewalRate(params, period_idx),
                                      seed, r.k)
                        ELSE st.n_active}} : TRUE

\* one pass of the loop body, for loop index period_idx, from the loop state
\* st = [n_active, k, total, cum, period_data, stop]: the next loop state,
\* or a fault
PeriodStep(pkg, params, seed, n_periods, period_idx, st) ==
    CHOOSE nx \in
        {PeriodRenewal(pkg, params, seed, n_periods, period_idx, st, r) :
            r \in {_run_single_period(st.n_active, pkg, params, seed, st.k)}} : TRUE

\* the loop over the periods from period_idx on: the final loop state, or a fault
RECURSIVE PeriodLoop(_, _, _, _, _, _)
PeriodLoop(pkg, params, seed, n_periods, period_idx, st) ==
    IF IsFault(st) THEN st
    ELSE IF st.stop \/ period_idx >= n_periods THEN st
    ELSE CHOOSE r \in
        {PeriodLoop(pkg, params, seed, n_periods, idx, nx) :
            idx \in {period_idx + 1},
            nx \in {PeriodStep(pkg, params, seed, n_periods, period_idx, st)}} : TRUE

\* what a replicate returns
ReplicateResult(st) ==
    IF IsFault(st) THEN st
    ELSE [total_profit |-> st.total, period_data |-> st.period_data,
          n_periods |-> Len(st.period_data)]

\* one replicate: [total_profit, period_data, n_periods], or a fault
run_single_simulation(pkg, params, seed) ==
    CHOOSE r \in
        {ReplicateResult(PeriodLoop(pkg, params, sd, n_periods, 0, st)) :
            sd \in {seed},
            n_periods \in {NPeriods(pkg, params)},
            st \in {[n_active |-> _compute_acquisition(pkg, params, seed),
                     k |-> 1 + params.N0, total |-> 0, cum |-> 0,
                     period_data |-> <<>>, stop |-> FALSE]}} : TRUE

\* ------------------------------------------------------- the aggregation

\* the cap of the exported sample array
SampleCap == 2000

\* (mutant) the seed also depends on the calls the process has served
MutReplicateSeed(base_seed, i) == base_seed + i * SeedStride + nCalls

\* the seed of replicate i of a call
ReplicateSeed(base_seed, i) == base_seed + i * SeedStride

\* (mutant) the replicates that stopped before period p count with zeros
MutMeanPeriod(results, p) ==
    LET have == {j \in 1..Len(results) : p <= Len(results[j].period_data)}
        col(f) == SumSeq([j \in 1..Len(results) |->
                             IF j \in have THEN results[j].period_data[p][f] ELSE 0])
    IN  [period |-> p, n |-> Len(results),
         active_users |-> col("active_users") \div Len(results), revenue |-> col("revenue"),
         cost |-> col("cost"), profit |-> col("profit"),
         cumulative_profit |-> col("cumulative_profit")]

\* entry p of the period breakdown: the PeriodRecords of index p of the
\* replicates that have one, as their number n and the sums of their fields
\* (the program reports sum / n), but for active_users, which is reported as
\* int(mean): the average truncated to an integer
MeanPeriod(results, p) ==
    LET have == {j \in 1..Len(results) : p <= Len(results[j].period_data)}
        col(f) == SumSeq([j \in 1..Len(results) |->
                             IF j \in have THEN results[j].period_data[p][f] ELSE 0])
    IN  [period |-> p, n |-> Cardinality(have),
         active_users |-> col("active_users") \div Cardinality(have),
         revenue |-> col("revenue"),
         cost |-> col("cost"), profit |-> col("profit"),
         cumulative_profit |-> col("cumulative_profit")]

\* (mutant) the trace holds the samples themselves
MutRunningSums(s, j, acc) == s

\* the running sums s[1], s[1] + s[2], ... from entry j on, acc holding the
\* entries before j
RECURSIVE RunningSums(_, _, _)
RunningSums(s, j, acc) ==
    IF j > Len(s) THEN acc
    ELSE CHOOSE r \in
        {RunningSums(s, jn, an) :
            jn \in {j + 1},
            an \in {Append(acc, (IF j = 1 THEN 0 ELSE acc[j - 1]) + s[j])}} : TRUE

\* (mutant) the periods of the last replicate are taken for those of all
Mut_max_periods(results) == results[Len(results)].n_periods

\* max(r["n_periods"] for r in results)
max_periods(results) ==
    CHOOSE m \in {results[j].n_periods : j \in 1..Len(results)} :
        \A j \in 1..Len(results) : results[j].n_periods <= m

\* the integer square root: the greatest s with s * s <= n
RECURSIVE ISqrt(_)
ISqrt(n) ==
    IF n < 2 THEN n
    ELSE CHOOSE r \in {IF (s + 1) * (s + 1) <= n THEN s + 1 ELSE s :
                          s \in {2 * ISqrt(n \div 4)}} : TRUE

\* profit_samples.std(), from the n^2-fold variance: the n-fold standard
\* deviation, rounded down to the grid
Std(var_profit) == ISqrt(var_profit)

\* (mutant) the half-width shrinks with M instead of sqrt(M)
MutCiHalf(std_profit, M) == (196 * std_profit) \div (100 * M)

\* ci_half = 1.96 * std_profit / math.sqrt(M), rounded down to the grid
\* (sqrt(M) to two decimals)
CiHalf(std_profit, M) == (196 * std_profit) \div ISqrt(10000 * M)

\* the statistics of the samples: the mean as the sum (mean * n), the variance
\* as n * SUM x^2 - (SUM x)^2 (variance * n^2), the standard deviation and
\* the confidence bounds as their n-fold, the risk-adjusted profit
\* mean - risk_lambda * variance as its n^2-fold
Statistics(results, profit_samples, sum, var_profit, params, M, base_seed) ==
    LET n == Len(profit_samples)
    IN  CHOOSE r \in
        {[expected_profit |-> sum,
          variance |-> var_profit,
          std |-> std_profit,
          ci_lower |-> sum - ci_half,
          ci_upper |-> sum + ci_half,
          risk_adjusted_profit |-> n * sum - params.risk_lambda * var_profit,
          profit_samples |-> SubSeq(profit_samples, 1, Min(n, SampleCap)),
          convergence_data |-> RunningSums(profit_samples, 1, <<>>),
          mean_period_data |-> [p \in 1..periods |-> MeanPeriod(results, p)],
          total_periods |-> periods,
          n_simulations_run |-> M,
          seed_used |-> base_seed] :
            std_profit \in {Std(var_profit)},
            ci_half \in {CiHalf(Std(var_profit), M)},
            periods \in {max_periods(results)}} : TRUE

\* the reduction of the replicates collected in results (index order)
Aggregate(results, params, M, base_seed) ==
    CHOOSE r \in
        {CHOOSE q \in
            {Statistics(results, profit_samples, sum,
                        Len(profit_samples) * sumsq - sum * sum, params, M, base_seed) :
                sum \in {SumSeq(profit_samples)},
                sumsq \in {SumSeq([j \in 1..Len(profit_samples) |->
                                      profit_samples[j] * profit_samples[j]])}} : TRUE :
         profit_samples \in {[j \in 1..Len(results) |-> results[j].total_profit]}} : TRUE

\* what run_monte_carlo makes of the replicates' results: the fault of the
\* first faulting replicate if there is one, else the statistics
Reduced(results, params, M, base_seed) ==
    LET bad == {j \in 1..Len(results) : IsFault(results[j])}
    IN  IF bad # {}
        THEN results[CHOOSE j \in bad : \A l \in bad : j <= l]
        ELSE Aggregate(results, params, M, base_seed)

\* run_monte_carlo as a function of its arguments, the replicates in index order
run_monte_carlo(pkg, params, M, base_seed) ==
    CHOOSE r \in
        {Reduced(results, params, M, base_seed) :
            results \in {[j \in 1..M |->
                            run_single_simulation(pkg, params,
                                                  ReplicateSeed(base_seed, j - 1))]}} : TRUE

\* Python's None
None == [none |-> TRUE]

\* ------------------------------------------------------ the tiered search

\* (mutant) the Standard tier starts one hundredth above the Budget tier's end
Mut_tier_specs ==
    <<[name |-> "Budget", low |-> 0, high |-> 33],
      [name |-> "Standard", low |-> 34, high |-> 67],
      [name |-> "Premium", low |-> 67, high |-> 100]>>

\* the fractions (in hundredths) of the caller's range a tier spans
tier_specs ==
    <<[name |-> "Budget", low |-> 0, high |-> 33],
      [name |-> "Standard", low |-> 33, high |-> 67],
      [name |-> "Premium", low |-> 67, high |-> 100]>>

\* (mutant) the fraction is taken from the upper end of the caller's range
MutLerp(lo, span, frac) == lo + span + (frac * span) \div 100

\* lo + frac * span, frac in hundredths (the scenarios' real-valued spans are
\* multiples of 100, for which the quotient is exact; for the integer validity
\* it is the truncation int(frac * span))
Lerp(lo, span, frac) == lo + (frac * span) \div 100

\* the bounds [low, high] of the four dimensions of a tier
TierBounds(b, tier) ==
    LET price_span == b.price_max - b.price_min
        data_span == b.data_gb_max - b.data_gb_min
        voice_span == b.voice_min_max - b.voice_min_min
        val_span == b.validity_max - b.validity_min
        t_val_min == Lerp(b.validity_min, val_span, tier.low)
        t_val_max == Lerp(b.validity_min, val_span, tier.high)
    IN  [price |-> <<Lerp(b.price_min, price_span, tier.low),
                     Lerp(b.price_min, price_span, tier.high)>>,
         data_gb |-> <<Lerp(b.data_gb_min, data_span, tier.low),
                       Lerp(b.data_gb_min, data_span, tier.high)>>,
         voice_min |-> <<Lerp(b.voice_min_min, voice_span, tier.low),
                         Lerp(b.voice_min_min, voice_span, tier.high)>>,
         validity_days |-> <<t_val_min, Max(t_val_min, t_val_max)>>]

Dims == {"price", "data_gb", "voice_min", "validity_days"}

\* skopt's Real(low, high) and Integer(low, high) accept low < high only
DimensionOk(d) == d[1] < d[2]

\* space = [Real(...), Real(...), Real(...), Integer(...)]: the tier's search
\* space, or the ValueError of the first dimension that is refused
Space(b, tier) ==
    LET tb == TierBounds(b, tier)
    IN  IF \A d \in Dims : DimensionOk(tb[d]) THEN tb
        ELSE Fault("ValueError", "space")

\* the evaluation budget of a tier
tier_iters(n_iterations) == Max(10, n_iterations \div 3)

tier_init(n_initial) == Max(5, n_initial \div 2)

n_calls(a) == tier_iters(a.n_iterations) + tier_init(a.n_initial)

\* the replicate count of a candidate evaluation
eval_M(M) == Max(50, M \div 3)

\* the k-th point (k = 0, 1, ...) the minimizer suggests in the space sp: in
\* every dimension the low end, the middle or the high end of the range,
\* as its random_state (the base seed) and its own stream decide
Suggest(sp, base_seed, stream, k) ==
    LET h(d) == Draw(base_seed * 5 + stream * 11 + 2, k * 4 + d) % 3
        at(r, d) == r[1] + ((r[2] - r[1]) * h(d)) \div 2
    IN  [price |-> at(sp.price, 0), data_gb |-> at(sp.data_gb, 1),
         voice_min |-> at(sp.voice_min, 2), validity_days |-> at(sp.validity_days, 3)]

\* the record objective(x) appends to evaluations
Evaluation(x, mc_result) ==
    [price |-> x.price, data_gb |-> x.data_gb, voice_min |-> x.voice_min,
     validity_days |-> x.validity_days,
     expected_profit |-> mc_result.expected_profit,
     risk_adjusted_profit |-> mc_result.risk_adjusted_profit]

\* result.x: the first of the evaluated points with the least objective
\* value, i.e. the greatest risk-adjusted profit
ResultIndex(evals) ==
    CHOOSE i \in 1..Len(evals) :
        /\ \A j \in 1..Len(evals) :
              evals[j].risk_adjusted_profit <= evals[i].risk_adjusted_profit
        /\ \A j \in 1..(i - 1) :
              evals[j].risk_adjusted_profit < evals[i].risk_adjusted_profit

\* -float('inf')
NegInf == [neginf |-> TRUE]

\* (mutant) the offers are left in tier order
MutSortedOffers(dicts) == dicts

\* list.sort(key = risk_adjusted_profit, reverse = True): stable, descending
SortedOffers(dicts) ==
    LET rank(i) == Cardinality({j \in 1..Len(dicts) :
                       \/ dicts[j].risk_adjusted_profit > dicts[i].risk_adjusted_profit
                       \/ /\ dicts[j].risk_adjusted_profit = dicts[i].risk_adjusted_profit
                          /\ j < i})
    IN  [p \in 1..Len(dicts) |->
            dicts[CHOOSE i \in 1..Len(dicts) : rank(i) = p - 1]]

\* no search has been asked for
SearchIdle ==
    /\ searchPc = "idle"
    /\ args = None
    /\ tierIdx = 0
    /\ space = None
    /\ minimizer = 0
    /\ evaluations = <<>>
    /\ best_profit_so_far = <<>>
    /\ call_counter = 0
    /\ all_offers = <<>>
    /\ global_best_profit = NegInf
    /\ global_best_result = None
    /\ global_evaluations = <<>>
    /\ searchResult = None
    /\ tierStatus = [t \in 1..3 |-> "unsearched"]
    /\ tierSpace = [t \in 1..3 |-> None]
    /\ returned = [t \in 1..3 |-> None]

\* -------------------------------------------------------- the offer ladder

\* TIER_DEFINITIONS: the multipliers of price, data and voice in hundredths,
\* the multiplier of the validity in halves
TIER_DEFINITIONS ==
    <<[price |-> 40, data |-> 30, voice |-> 30, validity |-> 1, label |-> "Micro"],
      [price |-> 55, data |-> 50, voice |-> 50, validity |-> 1, label |-> "Budget"],
      [price |-> 70, data |-> 70, voice |-> 70, validity |-> 2, label |-> "Economy"],
      [price |-> 85, data |-> 85, voice |-> 85, validity |-> 2, label |-> "Basic"],
      [price |-> 100, data |-> 100, voice |-> 100, validity |-> 2, label |-> "Standard"],
      [price |-> 115, data |-> 130, voice |-> 130, validity |-> 2, label |-> "Plus"],
      [price |-> 135, data |-> 160, voice |-> 160, validity |-> 4, label |-> "Pro"],
      [price |-> 160, data |-> 200, voice |-> 200, validity |-> 4, label |-> "Elite"],
      [price |-> 200, data |-> 250, voice |-> 250, validity |-> 8, label |-> "Premium"],
      [price |-> 250, data |-> 300, voice |-> 300, validity |-> 8, label |-> "Unlimited"]>>

\* round(x * mult, 2) for x on the 0.01 grid and mult in hundredths: the
\* nearest grid point of x * mult / 100, a half going away from zero (as the
\* binary products of the scenarios' amounts do)
Round2(x, mult) ==
    IF x * mult >= 0 THEN (x * mult + 50) \div 100
    ELSE -((50 - x * mult) \div 100)

\* int(x * mult) for mult in halves: the truncation towards zero
IntHalves(x, mult) ==
    IF x * mult >= 0 THEN (x * mult) \div 2 ELSE -((-(x * mult)) \div 2)

\* the offer a ladder entry derives from the anchor pkg
LadderOffer(pkg, tier) ==
    PackageSpec(Round2(pkg.data_gb, tier.data), Round2(pkg.voice_min, tier.voice),
                Max(1, IntHalves(pkg.validity_days, tier.validity)),
                Round2(pkg.price, tier.price))

\* (mutant) only the offers of negative price are skipped
MutSkipped(offer_price) == offer_price < 0

\* if offer_price <= 0: continue
Skipped(offer_price) == offer_price <= 0

\* the dict appended to offers
LadderEntry(label, offer_pkg, mc) ==
    [label |-> label, data_gb |-> offer_pkg.data_gb, voice_min |-> offer_pkg.voice_min,
     validity_days |-> offer_pkg.validity_days, price |-> offer_pkg.price,
     expected_profit |-> mc.expected_profit,
     risk_adjusted_profit |-> mc.risk_adjusted_profit,
     variance |-> mc.variance]

\* list.sort(key = expected_profit, reverse = True): stable, descending
SortedByProfit(os) ==
    LET rank(i) == Cardinality({j \in 1..Len(os) :
                       \/ os[j].expected_profit > os[i].expected_profit
                       \/ /\ os[j].expected_profit = os[i].expected_profit
                          /\ j < i})
    IN  [p \in 1..Len(os) |-> os[CHOOSE i \in 1..Len(os) : rank(i) = p - 1]]

\* no ladder has been asked for
LadderIdle ==
    /\ ladderPc = "idle"
    /\ ladderArgs = None
    /\ ladderIdx = 0
    /\ offers = <<>>
    /\ ladderResult = None

\* no call other than Simulate and SearchOptimalOffer has been made
\* ---------------------------------------------------------- sensitivity

\* param_deltas, in the order of the loop: the step applied to the parameter,
\* in steps of the parameter's grid, and the same step in hundredths of the
\* parameter's unit, by which the difference is divided (the program's steps
\* of the beta coefficients, of the unit costs and of c_min lie below the
\* grid of the model and are taken as one step of it)
param_deltas ==
    <<[name |-> "price", step |-> 100, delta |-> 100],
      [name |-> "data_gb", step |-> 10, delta |-> 10],
      [name |-> "voice_min", step |-> 500, delta |-> 500],
      [name |-> "validity_days", step |-> 1, delta |-> 100],
      [name |-> "beta_data", step |-> 1, delta |-> 10],
      [name |-> "beta_voice", step |-> 1, delta |-> 10],
      [name |-> "beta_price", step |-> 1, delta |-> 1],
      [name |-> "beta_validity", step |-> 1, delta |-> 10],
      [name |-> "c_gb_3g", step |-> 1, delta |-> 100],
      [name |-> "c_gb_4g", step |-> 1, delta |-> 100],
      [name |-> "c_gb_5g", step |-> 1, delta |-> 100],
      [name |-> "c_min", step |-> 1, delta |-> 100],
      [name |-> "base_renewal_rate", step |-> 50, delta |-> 5]>>

\* the package-level parameters
PackageLevel == {"price", "data_gb", "voice_min", "validity_days"}

\* dataclasses.replace(params, field = value + delta)
_perturb(params, field, delta) == [params EXCEPT ![field] = params[field] + delta]

\* the offer of the plus (sign = 1) or minus (sign = -1) evaluation of a
\* package-level parameter: the validity moves by a day and stays >= 1; a
\* lowered price or allowance stays >= 0.01
PerturbedPackage(pkg, name, step, sign) ==
    IF name = "validity_days"
    THEN [pkg EXCEPT !.validity_days = Max(1, pkg.validity_days + sign)]
    ELSE IF sign = 1 THEN [pkg EXCEPT ![name] = pkg[name] + step]
    ELSE [pkg EXCEPT ![name] = Max(1, pkg[name] - step)]

\* (mutant) every evaluation draws with a seed of its own
Mut_eval(p, par, M, base_seed) ==
    LET r == run_monte_carlo(p, par, M, base_seed + par.c_min + par.beta_voice)
    IN  IF IsFault(r) THEN r ELSE [expected_profit |-> r.expected_profit]

\* _eval(p, par): the expected profit (as the sum of the M samples), or the
\* fault of the simulation
_eval(p, par, M, base_seed) ==
    LET r == run_monte_carlo(p, par, M, base_seed)
    IN  IF IsFault(r) THEN r ELSE [expected_profit |-> r.expected_profit]

\* the quotient num / den, den > 0, kept as its two terms
Fraction(num, den) == [num |-> num, den |-> den]

\* abs(gradient)
AbsFraction(g) == Fraction(IF g.num < 0 THEN -g.num ELSE g.num, g.den)

\* a > b for two quotients
FractionGreater(a, b) == a.num * b.den > b.num * a.den

\* the record of a parameter: the gradient (e_plus - e_minus) / (2 * delta),
\* e_plus and e_minus being M-fold and delta in hundredths
SensitivityRecord(name, e_plus, e_minus, delta, M) ==
    CHOOSE r \in
        {[parameter |-> name, gradient |-> g, abs_gradient |-> AbsFraction(g)] :
            g \in {Fraction(100 * (e_plus - e_minus), 2 * delta * M)}} : TRUE

\* (mutant) the records are sorted by the signed gradient
MutSortedByGradient(rs) ==
    LET rank(i) == Cardinality({j \in 1..Len(rs) :
                       \/ FractionGreater(rs[j].gradient, rs[i].gradient)
                       \/ /\ ~FractionGreater(rs[i].gradient, rs[j].gradient)
                          /\ j < i})
    IN  [p \in 1..Len(rs) |-> rs[CHOOSE i \in 1..Len(rs) : rank(i) = p - 1]]

\* results.sort(key = abs_gradient, reverse = True): stable, descending
SortedByGradient(rs) ==
    LET rank(i) == Cardinality({j \in 1..Len(rs) :
                       \/ FractionGreater(rs[j].abs_gradient, rs[i].abs_gradient)
                       \/ /\ ~FractionGreater(rs[i].abs_gradient, rs[j].abs_gradient)
                          /\ j < i})
    IN  [p \in 1..Len(rs) |-> rs[CHOOSE i \in 1..Len(rs) : rank(i) = p - 1]]

\* no sensitivity has been asked for
SensIdle ==
    /\ sensPc = "idle"
    /\ sensArgs = None
    /\ sensIdx = 0
    /\ sensResults = <<>>
    /\ sensResult = None

\* no replicate is followed
RepIdle ==
    /\ repPc = "idle"
    /\ repArgs = None
    /\ repIdx = 0
    /\ repLoop = None
    /\ repResult = None

\* no reduction is under way
AggIdle ==
    /\ aggPc = "idle"
    /\ aggArgs = None
    /\ aggResult = None

CallsIdle == LadderIdle /\ SensIdle /\ RepIdle /\ AggIdle

\* ------------------------------------------------------------- Simulate

\* the network shares of the scenarios: valid, all zero, all negative
ShareTriples == {<<300, 500, 200>>, <<0, 0, 0>>, <<-300, -500, -200>>}

ShareSum(params) == params.pct_3g + params.pct_4g + params.pct_5g

WeightSum(params) == params.pi_light + params.pi_medium + pi_heavy(params)

WithShares(params, t) ==
    [params EXCEPT !.pct_3g = t[1], !.pct_4g = t[2], !.pct_5g = t[3]]

\* the scenarios of a session: any validity (also < 1), with and without a
\* data allowance, under the default parameters, and the default offer
\* under any shares and an empty or a full market
Scenarios ==
    {<<PackageSpec(1, 0, v, 2), DefaultParams>> : v \in 0..MaxTDays}
    \cup {<<PackageSpec(0, 0, 1, 2), DefaultParams>>}
    \cup {<<PackageSpec(1, 0, 1, 2), WithShares([DefaultParams EXCEPT !.N0 = n], t)>> :
             n \in {0, MaxN0}, t \in ShareTriples}

SimInit ==
    /\ \E sc \in Scenarios : offer = sc[1] /\ parameters = sc[2]
    /\ simPc = "idle"
    /\ call = None
    /\ task = <<>>
    /\ outcome = <<>>
    /\ response = None
    /\ order = <<>>
    /\ nCalls = 0
    /\ first = None
    /\ SearchIdle
    /\ CallsIdle

\* POST /simulate -> run_monte_carlo: the request is converted and the
\* replicates are handed to the worker pool; nothing is validated
Simulate(M, base_seed, n_jobs) ==
    /\ simPc # "running"
    /\ nCalls < MaxCalls
    /\ simPc' = "running"
    /\ call' = [M |-> M, base_seed |-> base_seed, n_jobs |-> n_jobs]
    /\ task' = [i \in 1..M |-> "pending"]
    /\ outcome' = [i \in 1..M |-> None]
    /\ response' = None
    /\ order' = <<>>
    /\ nCalls' = nCalls + 1
    /\ UNCHANGED <<offer, parameters, first>>
    /\ UNCHANGED <<searchVars, callVars>>

\* the pool hands the next task, in index order, to a free worker
Dispatch(i) ==
    /\ simPc = "running"
    /\ task[i] = "pending"
    /\ \A j \in 1..(i - 1) : task[j] # "pending"
    /\ Cardinality({j \in DOMAIN task : task[j] = "running"}) < call.n_jobs
    /\ task' = [task EXCEPT ![i] = "running"]
    /\ UNCHANGED <<offer, parameters, simPc, call, outcome, response, order, nCalls, first>>
    /\ UNCHANGED <<searchVars, callVars>>

\* (mutant) the results are kept in the order in which the tasks end
MutSlot(i) == Len(order) + 1

\* the slot, in the list Parallel returns, of the result of task i
Slot(i) == i

\* _sim(i - 1) ends: its result, or its fault, is kept for the caller
Complete(i) ==
    /\ simPc = "running"
    /\ task[i] = "running"
    /\ task' = [task EXCEPT ![i] = "done"]
    /\ outcome' = [outcome EXCEPT ![Slot(i)] =
                      run_single_simulation(offer, parameters,
                                            ReplicateSeed(call.base_seed, i - 1))]
    /\ order' = Append(order, i)
    /\ UNCHANGED <<offer, parameters, simPc, call, response, nCalls, first>>
    /\ UNCHANGED <<searchVars, callVars>>

\* what the history keeps of a call that ended
Ended(pc, resp) ==
    [M |-> call.M, base_seed |-> call.base_seed,
     in_order |-> \A a, b \in DOMAIN order : a < b => order[a] < order[b],
     pc |-> pc, response |-> resp]

\* a replicate's fault propagates out of Parallel and out of run_monte_carlo
Raise(i) ==
    /\ simPc = "running"
    /\ IsFault(outcome[i])
    /\ simPc' = "failed"
    /\ response' = outcome[i]
    /\ first' = IF first = None THEN Ended("failed", None) ELSE first
    /\ UNCHANGED <<offer, parameters, call, task, outcome, order, nCalls>>
    /\ UNCHANGED <<searchVars, callVars>>

Succeeded(x) == ~IsFault(x)

\* (mutant) the replicates that raised are left out of the reduction
MutCollected(res) ==
    IF \A i \in DOMAIN res : IsFault(res[i]) THEN res ELSE SelectSeq(res, Succeeded)

\* the results run_monte_carlo reduces: the list Parallel returned
Collected(res) == res

\* every task has ended and none raised: the results are reduced and returned
Return ==
    /\ simPc = "running"
    /\ \A i \in DOMAIN task : task[i] = "done"
    /\ \A i \in DOMAIN Collected(outcome) : Succeeded(Collected(outcome)[i])
    /\ LET r == Aggregate(Collected(outcome), parameters, call.M, call.base_seed)
       IN  /\ response' = r
           /\ first' = IF first = None THEN Ended("done", r) ELSE first
    /\ simPc' = "done"
    /\ UNCHANGED <<offer, parameters, call, task, outcome, order, nCalls>>
    /\ UNCHANGED <<searchVars, callVars>>

SimNext ==
    \/ \E M \in 1..MaxM, base_seed \in 0..MaxSeed, n_jobs \in 1..MaxJobs :
          Simulate(M, base_seed, n_jobs)
    \/ \E i \in DOMAIN task : Dispatch(i)
    \/ \E i \in DOMAIN task : Complete(i)
    \/ \E i \in DOMAIN outcome : Raise(i)
    \/ Return

SimSpec == SimInit /\ [][SimNext]_vars

\* ---------------------------------------------------- SearchOptimalOffer

\* the parameters of the searches: one customer, no discounting; with valid
\* network shares, and with shares that sum to zero
SearchParams == [DefaultParams EXCEPT !.N0 = 1, !.discount_rate = 0, !.beta_price = 1]

SearchParamSets == {SearchParams, WithShares(SearchParams, <<0, 0, 0>>)}

Bounds(price, data_gb, voice_min, validity) ==
    [price_min |-> price[1], price_max |-> price[2],
     data_gb_min |-> data_gb[1], data_gb_max |-> data_gb[2],
     voice_min_min |-> voice_min[1], voice_min_max |-> voice_min[2],
     validity_min |-> validity[1], validity_max |-> validity[2]]

\* the caller's bounds of the searches: a range in every dimension; a
\* validity range too short for the Budget tier; a single price
SearchBounds ==
    {Bounds(<<0, 100>>, <<0, 100>>, <<0, 100>>, <<1, MaxValidity>>),
     Bounds(<<0, 100>>, <<0, 100>>, <<0, 100>>, <<1, 3>>),
     Bounds(<<50, 50>>, <<0, 100>>, <<0, 100>>, <<1, MaxValidity>>)}

SearchInit ==
    /\ offer = PackageSpec(1, 0, 1, 2)
    /\ parameters = DefaultParams
    /\ simPc = "idle"
    /\ call = None
    /\ task = <<>>
    /\ outcome = <<>>
    /\ response = None
    /\ order = <<>>
    /\ nCalls = 0
    /\ first = None
    /\ SearchIdle
    /\ CallsIdle

\* POST /optimize -> bayesian_optimize: the locals before the loop
StartSearch(b, params, M, base_seed, n_iterations, n_initial, stream) ==
    /\ searchPc = "idle"
    /\ searchPc' = "tier"
    /\ args' = [bounds |-> b, params |-> params, M |-> M, base_seed |-> base_seed,
                n_iterations |-> n_iterations, n_initial |-> n_initial]
    /\ tierIdx' = 1
    /\ minimizer' = stream
    /\ all_offers' = <<>>
    /\ global_best_profit' = NegInf
    /\ global_best_result' = None
    /\ global_evaluations' = <<>>
    /\ UNCHANGED <<space, evaluations, best_profit_so_far, call_counter,
                   searchResult, tierStatus, tierSpace, returned>>
    /\ UNCHANGED <<simVars, callVars>>

\* the head of the loop body: the tier's bounds, its space and its locals;
\* a dimension the space refuses raises out of bayesian_optimize
BuildSpace ==
    /\ searchPc = "tier"
    /\ \E sp \in {Space(args.bounds, tier_specs[tierIdx])} :
          IF IsFault(sp)
          THEN /\ searchPc' = "failed"
               /\ searchResult' = sp
               /\ UNCHANGED <<space, evaluations, best_profit_so_far, call_counter,
                              tierStatus, tierSpace>>
          ELSE /\ searchPc' = "minimize"
               /\ space' = sp
               /\ evaluations' = <<>>
               /\ best_profit_so_far' = <<>>
               /\ call_counter' = 0
               /\ tierStatus' = [tierStatus EXCEPT ![tierIdx] = "searching"]
               /\ tierSpace' = [tierSpace EXCEPT ![tierIdx] = sp]
               /\ UNCHANGED searchResult
    /\ UNCHANGED <<args, tierIdx, minimizer, all_offers, global_best_profit,
                   global_best_result, global_evaluations, returned>>
    /\ UNCHANGED <<simVars, callVars>>

\* (mutant) the handler lets the minimizer's own faults through
MutCaught(f) == f.fault # "OptimizerFault"

\* except Exception: every fault raised inside the try is caught
Caught(f) == TRUE

\* a fault f raised inside the try: the tier is dropped and the loop goes on
\* to the next tier, or leaves the loop after the last one
Drop(f, why) ==
    /\ IF Caught(f)
       THEN /\ searchPc' = IF tierIdx = Len(tier_specs) THEN "finish" ELSE "tier"
            /\ searchResult' = searchResult
       ELSE /\ searchPc' = "failed"
            /\ searchResult' = f
    /\ tierIdx' = tierIdx + 1
    /\ tierStatus' = [tierStatus EXCEPT ![tierIdx] = why]

\* (mutant) the value of the last evaluation
Mut_current_best(evals) == evals[Len(evals)].risk_adjusted_profit

\* current_best: the greatest risk-adjusted profit among the evaluations
current_best(evals) ==
    CHOOSE v \in {evals[i].risk_adjusted_profit : i \in 1..Len(evals)} :
        \A i \in 1..Len(evals) : evals[i].risk_adjusted_profit <= v

\* gp_minimize calls objective(x) for its next point
Objective ==
    /\ searchPc = "minimize"
    /\ call_counter < n_calls(args)
    /\ \E x \in {Suggest(space, args.base_seed, minimizer, call_counter)} :
       \E mc_result \in {run_monte_carlo(PackageSpec(x.data_gb, x.voice_min,
                                                     x.validity_days, x.price),
                                         args.params, eval_M(args.M),
                                         args.base_seed + call_counter * SeedStride)} :
          IF IsFault(mc_result)
          THEN /\ Drop(mc_result, "evaluation fault")
               /\ UNCHANGED <<evaluations, best_profit_so_far, call_counter>>
          ELSE /\ evaluations' = Append(evaluations, Evaluation(x, mc_result))
               /\ best_profit_so_far' =
                     Append(best_profit_so_far,
                            current_best(Append(evaluations,
                                                Evaluation(x, mc_result))))
               /\ call_counter' = call_counter + 1
               /\ UNCHANGED <<searchPc, searchResult, tierIdx, tierStatus>>
    /\ UNCHANGED <<args, space, minimizer, all_offers, global_best_profit,
                   global_best_result, global_evaluations, tierSpace, returned>>
    /\ UNCHANGED <<simVars, callVars>>

\* the minimizer itself raises, at any point of its run
MinimizerFault ==
    /\ searchPc = "minimize"
    /\ Drop(Fault("OptimizerFault", "gp_minimize"), "minimizer fault")
    /\ UNCHANGED <<args, space, minimizer, evaluations, best_profit_so_far,
                   call_counter, all_offers, global_best_profit, global_best_result,
                   global_evaluations, tierSpace, returned>>
    /\ UNCHANGED <<simVars, callVars>>

\* a finite global_best_profit
Finite(x) == [value |-> x]

\* x > best, best being -inf or finite
Greater(x, best) == IF best = NegInf THEN TRUE ELSE x > best.value

\* (mutant) the tiers are compared by the value the minimizer reports
MutTierScore(full_mc, tier_max_profit) == tier_max_profit

\* the value by which the tiers are compared
TierScore(full_mc, tier_max_profit) == full_mc.risk_adjusted_profit

\* offers_dict
OfferOf(name, pkg, full_mc) ==
    [label |-> name, data_gb |-> pkg.data_gb, voice_min |-> pkg.voice_min,
     validity_days |-> pkg.validity_days, price |-> pkg.price,
     expected_profit |-> full_mc.expected_profit,
     risk_adjusted_profit |-> full_mc.risk_adjusted_profit,
     variance |-> full_mc.variance]

\* what the tier leaves in the locals of bayesian_optimize once its winner
\* tier_opt_pkg is re-evaluated as full_mc
Record(tier_opt_pkg, full_mc, tier_max_profit) ==
    /\ all_offers' = Append(all_offers,
                            [offer |-> OfferOf(tier_specs[tierIdx].name,
                                               tier_opt_pkg, full_mc),
                             pkg |-> tier_opt_pkg, full_mc |-> full_mc])
    /\ IF Greater(TierScore(full_mc, tier_max_profit), global_best_profit)
       THEN /\ global_best_profit' = Finite(TierScore(full_mc, tier_max_profit))
            /\ global_best_result' = [pkg |-> tier_opt_pkg, full_mc |-> full_mc,
                                      best_profit_so_far |-> best_profit_so_far]
       ELSE UNCHANGED <<global_best_profit, global_best_result>>
    /\ searchPc' = IF tierIdx = Len(tier_specs) THEN "finish" ELSE "tier"
    /\ tierIdx' = tierIdx + 1
    /\ tierStatus' = [tierStatus EXCEPT ![tierIdx] = "ok"]
    /\ UNCHANGED searchResult

\* gp_minimize returns: the evaluations join the global log, the returned
\* point is re-evaluated with M replicates and the base seed, and the tier
\* is recorded
MinimizerReturn ==
    /\ searchPc = "minimize"
    /\ call_counter = n_calls(args)
    /\ \E x \in {evaluations[ResultIndex(evaluations)]} :
       \E tier_opt_pkg \in {PackageSpec(x.data_gb, x.voice_min,
                                        x.validity_days, x.price)} :
       \E full_mc \in {run_monte_carlo(tier_opt_pkg, args.params,
                                       args.M, args.base_seed)} :
          /\ global_evaluations' = global_evaluations \o evaluations
          /\ returned' = [returned EXCEPT ![tierIdx] = tier_opt_pkg]
          /\ IF IsFault(full_mc)
             THEN /\ Drop(full_mc, "re-evaluation fault")
                  /\ UNCHANGED <<all_offers, global_best_profit, global_best_result>>
             ELSE Record(tier_opt_pkg, full_mc, x.risk_adjusted_profit)
    /\ UNCHANGED <<args, space, minimizer, evaluations, best_profit_so_far,
                   call_counter, tierSpace>>
    /\ UNCHANGED <<simVars, callVars>>

\* gp_minimize returns and the full re-evaluation raises for a cause outside
\* the candidates' runs: one of its replicates beyond those the candidates
\* ran (M > eval_M) fails, or the worker pool of n_jobs = -1 does. The
\* evaluations have joined the global log before; the tier is dropped
ReevaluationFault ==
    /\ searchPc = "minimize"
    /\ call_counter = n_calls(args)
    /\ \E x \in {evaluations[ResultIndex(evaluations)]} :
          /\ global_evaluations' = global_evaluations \o evaluations
          /\ returned' = [returned EXCEPT ![tierIdx] =
                             PackageSpec(x.data_gb, x.voice_min, x.validity_days, x.price)]
          /\ Drop(Fault("WorkerFault", "run_monte_carlo"), "re-evaluation fault")
    /\ UNCHANGED <<args, space, minimizer, evaluations, best_profit_so_far,
                   call_counter, all_offers, global_best_profit, global_best_result,
                   tierSpace>>
    /\ UNCHANGED <<simVars, callVars>>

\* global_best_result after the fallback to the first recorded offer
BestResult ==
    IF global_best_result = None /\ all_offers # <<>>
    THEN [pkg |-> all_offers[1].pkg, full_mc |-> all_offers[1].full_mc,
          best_profit_so_far |-> <<>>]
    ELSE global_best_result

\* global_best_profit after the fallback
BestProfit ==
    IF global_best_result = None /\ all_offers # <<>>
    THEN Finite(all_offers[1].full_mc.risk_adjusted_profit)
    ELSE global_best_profit

\* after the loop: the best result is unpacked (None cannot be) and the
\* outcome is assembled, the offers sorted
Finish ==
    /\ searchPc = "finish"
    /\ IF BestResult = None
       THEN /\ searchPc' = "failed"
            /\ searchResult' = Fault("TypeError", "bayesian_optimize")
       ELSE /\ searchPc' = "done"
            /\ searchResult' =
                  [optimal_package |-> BestResult.pkg,
                   max_expected_profit |-> BestProfit,
                   bo_convergence |-> BestResult.best_profit_so_far,
                   bo_evaluations |-> global_evaluations,
                   full_mc_result |-> BestResult.full_mc,
                   offers |-> SortedOffers([i \in 1..Len(all_offers) |->
                                               all_offers[i].offer])]
    /\ UNCHANGED <<args, tierIdx, space, minimizer, evaluations, best_profit_so_far,
                   call_counter, all_offers, global_best_profit, global_best_result,
                   global_evaluations, tierStatus, tierSpace, returned>>
    /\ UNCHANGED <<simVars, callVars>>

\* the request defaults n_bo_iterations, n_bo_init
SearchBudgets == {<<30, 10>>}

SearchNext ==
    \/ \E b \in SearchBounds, params \in SearchParamSets, M \in {1, MaxM},
          base_seed \in 0..MaxSeed, n \in SearchBudgets, stream \in 0..MaxStream :
          StartSearch(b, params, M, base_seed, n[1], n[2], stream)
    \/ BuildSpace
    \/ Objective
    \/ MinimizerFault
    \/ MinimizerReturn
    \/ ReevaluationFault
    \/ Finish

SearchSpec == SearchInit /\ [][SearchNext]_vars

\* ---------------------------------------------------- GenerateOfferTiers

\* the anchor offers of the ladders: a negative, a zero, the smallest and
\* larger prices; with and without allowances; a validity below and at 1
LadderAnchors ==
    {PackageSpec(d, v, w, p) : d \in {0, 20}, v \in {0, 20}, w \in {0, 1},
                               p \in {-1, 0, 1, 2, 20}}

LadderInit ==
    /\ offer = PackageSpec(1, 0, 1, 2)
    /\ parameters = DefaultParams
    /\ simPc = "idle"
    /\ call = None
    /\ task = <<>>
    /\ outcome = <<>>
    /\ response = None
    /\ order = <<>>
    /\ nCalls = 0
    /\ first = None
    /\ SearchIdle
    /\ CallsIdle

\* run_monte_carlo_offers is called: offers = []
StartLadder(pkg, params, M, base_seed) ==
    /\ ladderPc = "idle"
    /\ ladderPc' = "loop"
    /\ ladderArgs' = [pkg |-> pkg, params |-> params, M |-> M, base_seed |-> base_seed]
    /\ ladderIdx' = 1
    /\ offers' = <<>>
    /\ UNCHANGED ladderResult
    /\ UNCHANGED <<simVars, searchVars, sensVars, repVars, aggVars>>

\* one pass of the loop over TIER_DEFINITIONS: the offer is derived and,
\* unless its price is skipped, simulated and appended; a fault of the
\* simulation propagates
LadderStep ==
    /\ ladderPc = "loop"
    /\ ladderIdx <= Len(TIER_DEFINITIONS)
    /\ \E offer_pkg \in {LadderOffer(ladderArgs.pkg, TIER_DEFINITIONS[ladderIdx])} :
          IF Skipped(offer_pkg.price)
          THEN /\ ladderIdx' = ladderIdx + 1
               /\ UNCHANGED <<ladderPc, offers, ladderResult>>
          ELSE \E mc \in {run_monte_carlo(offer_pkg, ladderArgs.params,
                                          ladderArgs.M, ladderArgs.base_seed)} :
                  IF IsFault(mc)
                  THEN /\ ladderPc' = "failed"
                       /\ ladderResult' = mc
                       /\ UNCHANGED <<ladderIdx, offers>>
                  ELSE /\ offers' = Append(offers,
                                           LadderEntry(TIER_DEFINITIONS[ladderIdx].label,
                                                       offer_pkg, mc))
                       /\ ladderIdx' = ladderIdx + 1
                       /\ UNCHANGED <<ladderPc, ladderResult>>
    /\ UNCHANGED ladderArgs
    /\ UNCHANGED <<simVars, searchVars, sensVars, repVars, aggVars>>

\* after the loop: the offers are sorted and returned
LadderReturn ==
    /\ ladderPc = "loop"
    /\ ladderIdx > Len(TIER_DEFINITIONS)
    /\ ladderPc' = "done"
    /\ ladderResult' = SortedByProfit(offers)
    /\ UNCHANGED <<ladderArgs, ladderIdx, offers>>
    /\ UNCHANGED <<simVars, searchVars, sensVars, repVars, aggVars>>

LadderNext ==
    \/ \E pkg \in LadderAnchors, M \in 1..MaxM, base_seed \in 0..MaxSeed :
          StartLadder(pkg, DefaultParams, M, base_seed)
    \/ LadderStep
    \/ LadderReturn

LadderSpec == LadderInit /\ [][LadderNext]_vars

\* ---------------------------------------------------- ComputeSensitivity

\* the parameters of the sensitivity scenarios: no discounting
SensParams == [DefaultParams EXCEPT !.discount_rate = 0]

\* the base offers: with and without a data and a voice allowance
SensOffers ==
    {PackageSpec(d, v, w, p) : d \in {0, 20}, v \in {0, 300}, w \in {1, 2}, p \in {2, 3}}

SensInit ==
    /\ offer = PackageSpec(1, 0, 1, 2)
    /\ parameters = DefaultParams
    /\ simPc = "idle"
    /\ call = None
    /\ task = <<>>
    /\ outcome = <<>>
    /\ response = None
    /\ order = <<>>
    /\ nCalls = 0
    /\ first = None
    /\ SearchIdle
    /\ CallsIdle

\* compute_sensitivity is called: results = []
StartSens(pkg, params, M, base_seed) ==
    /\ sensPc = "idle"
    /\ sensPc' = "loop"
    /\ sensArgs' = [pkg |-> pkg, params |-> params, M |-> M, base_seed |-> base_seed]
    /\ sensIdx' = 1
    /\ sensResults' = <<>>
    /\ UNCHANGED sensResult
    /\ UNCHANGED <<simVars, searchVars, ladderVars, repVars, aggVars>>

\* the offer and the parameters of the plus (sign = 1) or minus (sign = -1)
\* evaluation of the parameter d of param_deltas
PointOf(d, sign) ==
    IF d.name \in PackageLevel
    THEN [pkg |-> PerturbedPackage(sensArgs.pkg, d.name, d.step, sign),
          params |-> sensArgs.params]
    ELSE [pkg |-> sensArgs.pkg,
          params |-> _perturb(sensArgs.params, d.name, sign * d.step)]

\* the plus (sign = 1) or minus (sign = -1) evaluation of the parameter d of
\* param_deltas
EvalSide(d, sign) ==
    \* the point is bound once
    CHOOSE e \in {_eval(pt.pkg, pt.params, sensArgs.M, sensArgs.base_seed) :
                     pt \in {PointOf(d, sign)}} : TRUE

\* (mutant) the perturbation is written into the caller's parameters
MutParamsAfter(params, perturbed) == perturbed

\* the caller's parameters after a pass of the loop whose last evaluation
\* used perturbed: replace() and PackageSpec() build new objects, nothing is
\* assigned to a field of params or pkg
ParamsAfter(params, perturbed) == params

\* one pass of the loop over param_deltas: the two evaluations and the
\* record of the parameter; a fault of an evaluation propagates
SensStep ==
    /\ sensPc = "loop"
    /\ sensIdx <= Len(param_deltas)
    /\ \E d \in {param_deltas[sensIdx]} :
       \E e_plus \in {EvalSide(d, 1)} :
          IF IsFault(e_plus)
          THEN /\ sensPc' = "failed"
               /\ sensResult' = e_plus
               /\ UNCHANGED <<sensIdx, sensResults>>
          ELSE \E e_minus \in {EvalSide(d, -1)} :
                  IF IsFault(e_minus)
                  THEN /\ sensPc' = "failed"
                       /\ sensResult' = e_minus
                       /\ UNCHANGED <<sensIdx, sensResults>>
                  ELSE /\ sensResults' =
                              Append(sensResults,
                                     SensitivityRecord(d.name, e_plus.expected_profit,
                                                       e_minus.expected_profit,
                                                       d.delta, sensArgs.M))
                       /\ sensIdx' = sensIdx + 1
                       /\ UNCHANGED <<sensPc, sensResult>>
    /\ sensArgs' = [sensArgs EXCEPT
                       !.params = ParamsAfter(sensArgs.params,
                                              PointOf(param_deltas[sensIdx], -1).params)]
    /\ UNCHANGED <<simVars, searchVars, ladderVars, repVars, aggVars>>

\* after the loop: the records are sorted and returned
SensReturn ==
    /\ sensPc = "loop"
    /\ sensIdx > Len(param_deltas)
    /\ sensPc' = "done"
    /\ sensResult' = SortedByGradient(sensResults)
    /\ UNCHANGED <<sensArgs, sensIdx, sensResults>>
    /\ UNCHANGED <<simVars, searchVars, ladderVars, repVars, aggVars>>

SensNext ==
    \/ \E pkg \in SensOffers, M \in 1..MaxM, base_seed \in 0..MaxSeed :
          StartSens(pkg, SensParams, M, base_seed)
    \/ SensStep
    \/ SensReturn

SensSpec == SensInit /\ [][SensNext]_vars

\* ------------------------------------- the analyses of the simulate route

\* the offers of the route's analyses
AnalysisOffers ==
    {PackageSpec(d, v, w, 2) : d \in {0, 20}, v \in {0, 20}, w \in {1, 2}}

\* the route holds the caller's offer and parameters
AnalysisInit ==
    /\ offer \in AnalysisOffers
    /\ parameters = SensParams
    /\ simPc = "idle"
    /\ call = None
    /\ task = <<>>
    /\ outcome = <<>>
    /\ response = None
    /\ order = <<>>
    /\ nCalls = 0
    /\ first = None
    /\ SearchIdle
    /\ CallsIdle

\* the route calls compute_sensitivity with its offer and its parameters
CallSensitivity(M, base_seed) == StartSens(offer, parameters, M, base_seed)

\* once the sensitivity is returned the route calls run_monte_carlo_offers
\* with the same offer, parameters and seed
CallOffers ==
    /\ sensPc = "done"
    /\ StartLadder(sensArgs.pkg, sensArgs.params, sensArgs.M, sensArgs.base_seed)

AnalysisNext ==
    \/ \E M \in 1..MaxM, base_seed \in 0..MaxSeed : CallSensitivity(M, base_seed)
    \/ SensStep
    \/ SensReturn
    \/ CallOffers
    \/ LadderStep
    \/ LadderReturn

AnalysisSpec == AnalysisInit /\ [][AnalysisNext]_vars

\* ------------------------------------------------------- one replicate, stepped

\* the offers of the replicates followed: with and without allowances
RepOffers ==
    {PackageSpec(d, v, w, 2) : d \in {0, 1}, v \in {0, 1}, w \in 1..3}

\* their parameters: an empty and a non-empty market, renewal enabled and
\* disabled, the horizons up to HorizonCap, both usage modes; and renewal
\* rates that leave [0, 1] as the periods pass
RepParams ==
    {[DefaultParams EXCEPT !.N0 = n, !.enable_renewal = e, !.T_days = t,
                           !.use_mixture = u] :
        n \in {0, MaxN0}, e \in BOOLEAN, t \in 1..HorizonCap, u \in BOOLEAN}
    \cup {[DefaultParams EXCEPT !.T_days = HorizonCap, !.base_renewal_rate = b[1],
                                !.renewal_decay = b[2]] :
             b \in {<<600, 400>>, <<1200, 50>>, <<900, -200>>}}

\* their seeds: the seeds run_monte_carlo gives its replicates
RepSeeds == {ReplicateSeed(b, i) : b \in 0..MaxSeed, i \in 0..(MaxM - 1)}

RepInit ==
    /\ offer = PackageSpec(1, 0, 1, 2)
    /\ parameters = DefaultParams
    /\ simPc = "idle"
    /\ call = None
    /\ task = <<>>
    /\ outcome = <<>>
    /\ response = None
    /\ order = <<>>
    /\ nCalls = 0
    /\ first = None
    /\ SearchIdle
    /\ CallsIdle

\* run_single_simulation is called: the acquisition, the number of periods,
\* the totals at zero and an empty ledger
StartReplicate(pkg, params, seed) ==
    /\ repPc = "idle"
    /\ repPc' = "loop"
    /\ repArgs' = [pkg |-> pkg, params |-> params, seed |-> seed,
                   n_periods |-> NPeriods(pkg, params)]
    /\ repIdx' = 0
    /\ repLoop' = [n_active |-> _compute_acquisition(pkg, params, seed),
                   k |-> 1 + params.N0, total |-> 0, cum |-> 0,
                   period_data |-> <<>>, stop |-> FALSE]
    /\ UNCHANGED repResult
    /\ UNCHANGED <<simVars, searchVars, ladderVars, sensVars, aggVars>>

\* (mutant) the loop goes on after the renewal left no customer
MutLoopEnded(n_periods, idx, st) == idx >= n_periods

\* the loop is over: the renewal's break was taken or the range is exhausted
LoopEnded(n_periods, idx, st) == st.stop \/ idx >= n_periods

\* one pass of the loop body: the period, its PeriodRecord, the renewal
RunPeriod ==
    /\ repPc = "loop"
    /\ ~LoopEnded(repArgs.n_periods, repIdx, repLoop)
    /\ \E nx \in {PeriodStep(repArgs.pkg, repArgs.params, repArgs.seed,
                             repArgs.n_periods, repIdx, repLoop)} :
          IF IsFault(nx)
          THEN /\ repPc' = "failed"
               /\ repResult' = nx
               /\ UNCHANGED <<repIdx, repLoop>>
          ELSE /\ repLoop' = nx
               /\ repIdx' = repIdx + 1
               /\ UNCHANGED <<repPc, repResult>>
    /\ UNCHANGED repArgs
    /\ UNCHANGED <<simVars, searchVars, ladderVars, sensVars, aggVars>>

\* after the loop: the replicate returns its total and its ledger
ReturnReplicate ==
    /\ repPc = "loop"
    /\ LoopEnded(repArgs.n_periods, repIdx, repLoop)
    /\ repPc' = "done"
    /\ repResult' = ReplicateResult(repLoop)
    /\ UNCHANGED <<repArgs, repIdx, repLoop>>
    /\ UNCHANGED <<simVars, searchVars, ladderVars, sensVars, aggVars>>

RepNext ==
    \/ \E pkg \in RepOffers, params \in RepParams, seed \in RepSeeds :
          StartReplicate(pkg, params, seed)
    \/ RunPeriod
    \/ ReturnReplicate

RepSpec == RepInit /\ [][RepNext]_vars

\* ----------------------------------------------------------- the reduction

\* the total profits of the replicates reduced: a loss, nothing, small and
\* large gains
AggProfits == {-50, 0, 1, 7, 100}

\* a replicate's result with the total profit x: one period, of profit x
ResultOf(x) ==
    [total_profit |-> x,
     period_data |-> <<[period |-> 1, active_users |-> 1, revenue |-> x, cost |-> 0,
                        profit |-> x, cumulative_profit |-> x]>>,
     n_periods |-> 1]

AggInit ==
    /\ offer = PackageSpec(1, 0, 1, 2)
    /\ parameters = DefaultParams
    /\ simPc = "idle"
    /\ call = None
    /\ task = <<>>
    /\ outcome = <<>>
    /\ response = None
    /\ order = <<>>
    /\ nCalls = 0
    /\ first = None
    /\ SearchIdle
    /\ CallsIdle

\* Parallel has returned the M results
Collect(results, params, M, base_seed) ==
    /\ aggPc = "idle"
    /\ aggPc' = "collected"
    /\ aggArgs' = [results |-> results, params |-> params, M |-> M,
                   base_seed |-> base_seed]
    /\ UNCHANGED aggResult
    /\ UNCHANGED <<simVars, searchVars, ladderVars, sensVars, repVars>>

\* the results are reduced to the statistics
Reduce ==
    /\ aggPc = "collected"
    /\ aggPc' = "done"
    /\ aggResult' = Reduced(aggArgs.results, aggArgs.params, aggArgs.M, aggArgs.base_seed)
    /\ UNCHANGED aggArgs
    /\ UNCHANGED <<simVars, searchVars, ladderVars, sensVars, repVars>>

AggNext ==
    \/ \E M \in 1..(MaxM + 1) :
       \E xs \in [1..M -> AggProfits] :
          Collect([j \in 1..M |-> ResultOf(xs[j])], DefaultParams, M, 0)
    \/ Reduce

AggSpec == AggInit /\ [][AggNext]_vars

\* ------------------------------------------------------ claims on Simulate

\* the replicate of index i (from 0) of the call in progress, computed anew
ReplicateOf(i) ==
    run_single_simulation(offer, parameters, call.base_seed + i * 997)

\* C1: a Simulate call with the same (offer, parameters, M, base_seed) as an
\* earlier call ends as that call did and, when it returns, returns the
\* identical AggregateResult, whatever the parallelism degree, the order in
\* which the replicates ended and the calls made before; every replicate i
\* has run with the seed base_seed + i * 997
C1_Reproducible ==
    /\ \A i \in DOMAIN task :
          task[i] = "done" => \E j \in DOMAIN outcome : outcome[j] = ReplicateOf(i - 1)
    /\ (simPc \in {"done", "failed"} /\ first # None
        /\ first.M = call.M /\ first.base_seed = call.base_seed)
       => (first.pc = simPc /\ (simPc = "done" => first.response = response))

\* a second call has returned, with the arguments of the first one, whose
\* replicates had ended in index order, while its own replicates ran in
\* parallel and ended in another order
C1_Witness ==
    /\ simPc = "done" /\ nCalls = 2 /\ first # None /\ first.pc = "done"
    /\ first.M = call.M /\ first.base_seed = call.base_seed
    /\ call.M >= 2 /\ call.n_jobs >= 2
    /\ first.in_order
    /\ \E a, b \in DOMAIN order : a < b /\ order[a] > order[b]
    /\ \E i, j \in DOMAIN response.profit_samples :
          response.profit_samples[i] # response.profit_samples[j]

\* C2: whatever the order in which the replicates end, slot i of the list of
\* results, entry i of the sample array and the prefix behind entry i of the
\* convergence trace hold the result of the replicate of index i
C2_IndexOrder ==
    /\ \A i \in DOMAIN outcome : outcome[i] # None => outcome[i] = ReplicateOf(i - 1)
    /\ simPc = "done" =>
          \A i \in 1..call.M :
             /\ response.profit_samples[i] = ReplicateOf(i - 1).total_profit
             /\ response.convergence_data[i]
                = SumSeq([j \in 1..i |-> ReplicateOf(j - 1).total_profit])

\* a call has returned whose replicates ended out of index order and
\* differ in their results
C2_Witness ==
    /\ simPc = "done"
    /\ \E a, b \in DOMAIN order : a < b /\ order[a] > order[b]
    /\ \E i, j \in DOMAIN response.profit_samples :
          response.profit_samples[i] # response.profit_samples[j]

\* C3: a call fails with the fault of a replicate that raised; it returns
\* only when all M replicates have ended and none raised, and its statistics
\* are those of all M replicates
C3_FailFast ==
    /\ simPc = "failed" => \E i \in DOMAIN outcome : IsFault(outcome[i]) /\ response = outcome[i]
    /\ simPc = "done" =>
          /\ \A i \in 1..call.M : task[i] = "done" /\ outcome[i] = ReplicateOf(i - 1)
          /\ \A i \in 1..call.M : ~IsFault(ReplicateOf(i - 1))
          /\ Len(response.profit_samples) = call.M
          /\ Len(response.convergence_data) = call.M
          /\ response.mean_period_data[1].n = call.M

\* a call has failed although one of its replicates had succeeded
C3_Witness ==
    /\ simPc = "failed"
    /\ \E i, j \in DOMAIN outcome :
          /\ IsFault(outcome[i])
          /\ outcome[j] # None /\ ~IsFault(outcome[j])

\* C4: no AggregateResult is returned for a ParameterSet whose network
\* shares or usage-segment weights sum to a value <= 0
C4_InvalidSharesRejected ==
    (ShareSum(parameters) <= 0 \/ WeightSum(parameters) <= 0) => simPc # "done"

\* C5: no AggregateResult is returned for an offer of validity_days < 1
C5_InvalidValidityRejected ==
    offer.validity_days < 1 => simPc # "done"

\* C15 (as stated): for a call with renewal enabled the reported
\* total_periods is floor(T_days / validity_days).
C15_TotalPeriodsIsHorizonQuotient ==
    (simPc = "done" /\ parameters.enable_renewal /\ offer.validity_days >= 1) =>
        response.total_periods = parameters.T_days \div offer.validity_days

\* C15 (amended): for a call with renewal enabled and validity_days >= 1 the
\* reported total_periods is the greatest number of PeriodRecords any of the
\* M replicates emitted, which is the length of the period breakdown; it is
\* at least 1 and at most max(1, floor(T_days / validity_days)), and it is 1
\* when the market is empty.
C15_TotalPeriodsIsLongestLedger ==
    (simPc = "done" /\ parameters.enable_renewal /\ offer.validity_days >= 1) =>
        /\ \E i \in 1..call.M :
              response.total_periods = Len(ReplicateOf(i - 1).period_data)
        /\ \A i \in 1..call.M :
              response.total_periods >= Len(ReplicateOf(i - 1).period_data)
        /\ Len(response.mean_period_data) = response.total_periods
        /\ response.total_periods >= 1
        /\ \/ response.total_periods = 1
           \/ response.total_periods * offer.validity_days <= parameters.T_days
        /\ parameters.N0 = 0 => response.total_periods = 1

\* a call has returned a total_periods below floor(T_days / validity_days)
\* although customers had bought the offer: no replicate kept a customer
\* through the renewals
C15_Witness ==
    /\ simPc = "done" /\ parameters.enable_renewal /\ offer.validity_days >= 1
    /\ parameters.N0 > 0
    /\ response.mean_period_data[1].active_users > 0
    /\ response.total_periods < parameters.T_days \div offer.validity_days

Reaching(p) == {i \in 0..(call.M - 1) : Len(outcome[i + 1].period_data) >= p}

\* the sum of the field f of the period-p PeriodRecords of the replicates is
SumOver(is, p, f) ==
    SumSeq([j \in 1..call.M |->
               IF (j - 1) \in is THEN outcome[j].period_data[p][f] ELSE 0])

\* C23 (as stated): every field of entry p of the per-period breakdown is
\* the average of that field over the period-p PeriodRecords of exactly the
\* replicates whose ledger has at least p records; the breakdown has one
\* entry for every p from 1 to the longest ledger, the reported total_periods.
C23_SurvivorAverages ==
    simPc = "done" =>
        /\ DOMAIN response.mean_period_data = 1..response.total_periods
        /\ \A p \in 1..response.total_periods :
              /\ response.mean_period_data[p].n = Cardinality(Reaching(p))
              /\ response.mean_period_data[p].active_users * Cardinality(Reaching(p))
                    = SumOver(Reaching(p), p, "active_users")
              /\ \A f \in {"revenue", "cost", "profit", "cumulative_profit"} :
                    response.mean_period_data[p][f] = SumOver(Reaching(p), p, f)

\* C23 (amended): revenue, cost, profit and cumulative_profit of entry p of
\* the per-period breakdown are the averages over the period-p PeriodRecords
\* of exactly the replicates whose ledger has at least p records (kept as
\* their number n and the sums), and active_users is that average truncated
\* to an integer; the replicates that stopped earlier are not counted; the
\* breakdown has one entry for every p from 1 to the longest ledger, the
\* reported total_periods.
C23_SurvivorAveragesTruncatedUsers ==
    simPc = "done" =>
        /\ DOMAIN response.mean_period_data = 1..response.total_periods
        /\ Reaching(response.total_periods) # {}
        /\ Reaching(response.total_periods + 1) = {}
        /\ \A p \in 1..response.total_periods :
              /\ response.mean_period_data[p].period = p
              /\ response.mean_period_data[p].n = Cardinality(Reaching(p))
              /\ response.mean_period_data[p].active_users * Cardinality(Reaching(p))
                    <= SumOver(Reaching(p), p, "active_users")
              /\ (response.mean_period_data[p].active_users + 1) * Cardinality(Reaching(p))
                    > SumOver(Reaching(p), p, "active_users")
              /\ \A f \in {"revenue", "cost", "profit", "cumulative_profit"} :
                    response.mean_period_data[p][f] = SumOver(Reaching(p), p, f)

\* a call has returned a breakdown whose last entry averages fewer replicates
\* than its first, and whose first entry has a truncated active_users
C23_Witness ==
    /\ simPc = "done"
    /\ response.total_periods >= 2
    /\ response.mean_period_data[response.total_periods].n < response.mean_period_data[1].n
    /\ response.mean_period_data[response.total_periods].profit # 0
    /\ response.mean_period_data[1].active_users * response.mean_period_data[1].n
          < SumOver(Reaching(1), 1, "active_users")

\* ------------------------------------------- claims on SearchOptimalOffer

\* the ways a tier is dropped
Dropped == {"evaluation fault", "minimizer fault", "re-evaluation fault"}

SearchEnded == searchPc \in {"done", "failed"}

\* the tiers that recorded a TierResult
OkTiers == {t \in 1..3 : tierStatus[t] = "ok"}

\* C6: when all three tiers have failed, the search fails, classified as
\* SearchExhausted: it returns no SearchOutcome and raises no other fault
C6_SearchExhausted ==
    (SearchEnded /\ \A t \in 1..3 : tierStatus[t] \in Dropped)
    => (searchPc = "failed" /\ searchResult.fault = "SearchExhausted")

\* C7: a tier in which the minimizer, or a candidate evaluation, raised is
\* dropped (it records no offer) and the search goes on with the next tier;
\* a search in which some tier succeeded returns, and its best offer is the
\* point returned for a tier that succeeded
C7_TierFaultRecovered ==
    /\ \A t \in 1..3 : tierStatus[t] \in Dropped =>
          /\ \A i \in DOMAIN all_offers : all_offers[i].offer.label # tier_specs[t].name
          /\ t < 3 => \/ tierStatus[t + 1] # "unsearched"
                      \/ (searchPc = "tier" /\ tierIdx = t + 1)
          /\ t = 3 => searchPc \in {"finish", "done", "failed"}
    /\ (SearchEnded /\ OkTiers # {}) =>
          /\ searchPc = "done"
          /\ \E t \in OkTiers : searchResult.optimal_package = returned[t]

\* a search has returned the winner of its last tier although the minimizer
\* raised in its first tier
C7_Witness ==
    /\ searchPc = "done"
    /\ tierStatus[1] = "minimizer fault"
    /\ tierStatus[3] = "ok"
    /\ searchResult.optimal_package = returned[3]
    /\ searchResult.optimal_package # returned[2]

\* has tier t of the search a sub-range with equal bounds in some dimension?
Degenerate(t) ==
    \E d \in Dims : TierBounds(args.bounds, tier_specs[t])[d][1]
                    = TierBounds(args.bounds, tier_specs[t])[d][2]

\* C8: a search with a tier whose sub-range is degenerate does not end
\* before every tier has been tried
C8_DegenerateTierSkipped ==
    (searchPc = "failed" /\ \E t \in 1..3 : Degenerate(t))
    => \A t \in 1..3 : tierStatus[t] # "unsearched"

\* C9: every recorded tier offer is the point the minimizer returned for its
\* tier, re-evaluated with M replicates and the base seed; the optimal offer
\* and the full result returned are those of a recorded tier whose
\* re-evaluated risk-adjusted profit no recorded tier exceeds
C9_BestByFullResolution ==
    searchPc = "done" =>
       /\ \A i \in DOMAIN all_offers :
             /\ \E t \in OkTiers : /\ all_offers[i].offer.label = tier_specs[t].name
                                   /\ all_offers[i].pkg = returned[t]
             /\ all_offers[i].full_mc
                = run_monte_carlo(all_offers[i].pkg, args.params, args.M, args.base_seed)
       /\ \E i \in DOMAIN all_offers :
             /\ searchResult.optimal_package = all_offers[i].pkg
             /\ searchResult.full_mc_result = all_offers[i].full_mc
             /\ \A j \in DOMAIN all_offers :
                   all_offers[j].full_mc.risk_adjusted_profit
                   <= all_offers[i].full_mc.risk_adjusted_profit

\* the greatest reduced-M value of the tier whose evaluations are entries
\* lo..hi of the evaluation log
ReducedBest(lo, hi) ==
    CHOOSE v \in {global_evaluations[k].risk_adjusted_profit : k \in lo..hi} :
        \A k \in lo..hi : global_evaluations[k].risk_adjusted_profit <= v

\* all three tiers succeeded, the returned offer is not the first tier's, and
\* another tier had the greater reduced-M value during the search
C9_Witness ==
    /\ searchPc = "done"
    /\ OkTiers = 1..3
    /\ searchResult.optimal_package # all_offers[1].pkg
    /\ LET n == n_calls(args)
           w == CHOOSE i \in 1..3 : searchResult.full_mc_result = all_offers[i].full_mc
       IN  \E j \in 1..3 :
              ReducedBest((j - 1) * n + 1, j * n) > ReducedBest((w - 1) * n + 1, w * n)

\* the fractions of the tiers' ends: 0, 33 %, 67 %, 100 %
TierEnds == <<0, 33, 67, 100>>

\* is v inside tier t's part of the real-valued range lo..hi?
InRealTier(v, lo, hi, t) ==
    /\ 100 * v >= 100 * lo + TierEnds[t] * (hi - lo)
    /\ 100 * v <= 100 * lo + TierEnds[t + 1] * (hi - lo)

\* is v inside tier t's part of the integer range lo..hi?
InIntTier(v, lo, hi, t) ==
    /\ v >= lo + (TierEnds[t] * (hi - lo)) \div 100
    /\ v <= lo + (TierEnds[t + 1] * (hi - lo)) \div 100

C11_LadderPositiveSorted ==
    ladderPc = "done" =>
       /\ \A i \in DOMAIN ladderResult :
             ladderResult[i].price > 0 /\ ladderResult[i].validity_days >= 1
       /\ \A i, j \in DOMAIN ladderResult :
             i < j => ladderResult[i].expected_profit >= ladderResult[j].expected_profit
       /\ Len(ladderResult) <= 10
       /\ \A i, j \in DOMAIN ladderResult : i # j => ladderResult[i].label # ladderResult[j].label

\* a ladder was returned from which an entry of price 0 is missing and whose
\* order, by profit, is not the order of the ladder
C11_Witness ==
    /\ ladderPc = "done"
    /\ Len(ladderResult) \in 1..9
    /\ ladderResult # offers
    /\ \E i, j \in DOMAIN ladderResult :
          ladderResult[i].expected_profit > ladderResult[j].expected_profit

\* ------------------------------------------- claims on ComputeSensitivity

\* C12: the list ComputeSensitivity returns holds one record per parameter of
\* param_deltas, every record's abs_gradient is the absolute value of its
\* gradient, and the records are ordered by non-increasing abs_gradient.
C12_SortedByAbsGradient ==
    sensPc = "done" =>
        /\ Len(sensResult) = Len(param_deltas)
        /\ {sensResult[i].parameter : i \in 1..Len(sensResult)}
               = {param_deltas[i].name : i \in 1..Len(param_deltas)}
        /\ \A i \in 1..Len(sensResult) :
              /\ sensResult[i].abs_gradient.den = sensResult[i].gradient.den
              /\ sensResult[i].abs_gradient.num >= 0
              /\ sensResult[i].abs_gradient.num \in
                     {sensResult[i].gradient.num, -sensResult[i].gradient.num}
        /\ \A i, j \in 1..Len(sensResult) :
              i < j => sensResult[i].abs_gradient.num * sensResult[j].abs_gradient.den
                          >= sensResult[j].abs_gradient.num * sensResult[i].abs_gradient.den

\* a list is returned whose order differs from the order of the loop, with a
\* negative gradient placed before a positive one of smaller magnitude
C12_Witness ==
    /\ sensPc = "done"
    /\ sensResult # sensResults
    /\ \E i, j \in 1..Len(sensResult) :
          /\ i < j
          /\ sensResult[i].gradient.num < 0
          /\ sensResult[j].gradient.num > 0

\* the profits of the M replicates of an offer under params
ReplicateProfits(pkg, params, M, base_seed) ==
    [i \in 1..M |-> run_single_simulation(pkg, params, ReplicateSeed(base_seed, i - 1)).total_profit]

\* the perturbation of the parameter d changes no replicate's profit
NoReplicateMoves(d) ==
    IF d.name \in PackageLevel
    THEN ReplicateProfits(PerturbedPackage(sensArgs.pkg, d.name, d.step, 1),
                          sensArgs.params, sensArgs.M, sensArgs.base_seed)
         = ReplicateProfits(PerturbedPackage(sensArgs.pkg, d.name, d.step, -1),
                            sensArgs.params, sensArgs.M, sensArgs.base_seed)
    ELSE ReplicateProfits(sensArgs.pkg, _perturb(sensArgs.params, d.name, d.step),
                          sensArgs.M, sensArgs.base_seed)
         = ReplicateProfits(sensArgs.pkg, _perturb(sensArgs.params, d.name, -d.step),
                            sensArgs.M, sensArgs.base_seed)

\* C13: a parameter whose perturbation changes no replicate's profit has the
\* gradient 0; so have c_min and beta_voice when the offer has no voice
\* allowance.
C13_ZeroGradient ==
    \A i \in 1..Len(sensResults) :
        /\ NoReplicateMoves(param_deltas[i]) => sensResults[i].gradient.num = 0
        /\ (sensArgs.pkg.voice_min = 0 /\ param_deltas[i].name \in {"c_min", "beta_voice"})
              => sensResults[i].gradient.num = 0

\* an offer without voice allowance: c_min and beta_voice have the gradient 0
\* while another parameter has not
C13_Witness ==
    /\ sensPc = "done"
    /\ sensArgs.pkg.voice_min = 0
    /\ \E i, j \in 1..Len(sensResults) :
          /\ sensResults[i].parameter = "c_min"
          /\ sensResults[i].gradient.num = 0
          /\ sensResults[j].gradient.num # 0

\* ------------------------------------------------ claims on one replicate

\* C14: for an offer with data = 0 and voice = 0 the revenue of every period
\* of a replicate is active_users * price: no overage revenue is added.
C14_NoOverageWithoutAllowance ==
    (repPc \in {"loop", "done"} /\ repArgs.pkg.data_gb = 0 /\ repArgs.pkg.voice_min = 0) =>
        \A p \in 1..Len(repLoop.period_data) :
            repLoop.period_data[p].revenue
                = repLoop.period_data[p].active_users * repArgs.pkg.price

\* a zero-allowance offer was bought (overage prices positive) and renewed
C14_Witness ==
    /\ repPc = "done"
    /\ repArgs.pkg.data_gb = 0 /\ repArgs.pkg.voice_min = 0
    /\ repArgs.params.p_over_data > 0 /\ repArgs.params.p_over_voice > 0
    /\ Len(repResult.period_data) >= 2
    /\ \A p \in 1..Len(repResult.period_data) : repResult.period_data[p].revenue > 0

\* C16: with a market of size 0 a replicate's ledger never holds more than
\* one PeriodRecord, and the replicate returns total_profit = 0 and exactly
\* one PeriodRecord: period 1, no active user, zero revenue, cost and profit;
\* with renewal enabled or disabled.
C16_EmptyMarket ==
    (repPc \in {"loop", "done"} /\ repArgs.params.N0 = 0) =>
        /\ Len(repLoop.period_data) <= 1
        /\ repPc = "done" =>
              /\ repResult.total_profit = 0
              /\ repResult.n_periods = 1
              /\ repResult.period_data =
                     <<[period |-> 1, active_users |-> 0, revenue |-> 0, cost |-> 0,
                        profit |-> 0, cumulative_profit |-> 0]>>

\* an empty market with renewal enabled over a horizon of several periods
C16_Witness ==
    /\ repPc = "done"
    /\ repArgs.params.N0 = 0
    /\ repArgs.params.enable_renewal
    /\ repArgs.n_periods >= 2
    /\ Len(repResult.period_data) = 1

\* C19: a replicate returns at least one PeriodRecord; at most
\* max(1, floor(T_days / validity_days)) when renewal is enabled, exactly one
\* when it is disabled.
C19_PeriodCountBounds ==
    repPc = "done" =>
        /\ Len(repResult.period_data) >= 1
        /\ repArgs.params.enable_renewal =>
              \E q \in 0..repArgs.params.T_days :
                  /\ q * repArgs.pkg.validity_days <= repArgs.params.T_days
                  /\ (q + 1) * repArgs.pkg.validity_days > repArgs.params.T_days
                  /\ Len(repResult.period_data) <= (IF q >= 1 THEN q ELSE 1)
        /\ ~repArgs.params.enable_renewal => Len(repResult.period_data) = 1

\* a replicate that ran all its periods, several of them, and whose horizon
\* is not a multiple of the validity
C19_Witness ==
    /\ repPc = "done"
    /\ repArgs.params.enable_renewal
    /\ repArgs.pkg.validity_days = 2
    /\ repArgs.params.T_days = 5
    /\ Len(repResult.period_data) = 2

\* C20: a replicate whose active-customer count reached zero runs no further
\* period; every PeriodRecord of period >= 2 has active_users >= 1; and
\* active_users does not increase from a record to the next.
C20_StopsAtZero ==
    repPc \in {"loop", "done"} =>
        /\ (Len(repLoop.period_data) >= 1 /\ repLoop.n_active = 0)
              => ~ENABLED RunPeriod
        /\ \A p \in 1..Len(repLoop.period_data) :
              /\ repLoop.period_data[p].period = p
              /\ p >= 2 => repLoop.period_data[p].active_users >= 1
              /\ p >= 2 => repLoop.period_data[p].active_users
                              <= repLoop.period_data[p - 1].active_users

\* a replicate that lost customers at a renewal, and all of them at a later
\* renewal, before its last period
C20_Witness ==
    /\ repPc = "done"
    /\ Len(repResult.period_data) >= 2
    /\ Len(repResult.period_data) < repArgs.n_periods
    /\ repLoop.n_active = 0
    /\ \E p \in 2..Len(repResult.period_data) :
          repResult.period_data[p].active_users < repResult.period_data[p - 1].active_users

\* ------------------------------------------------ claims on the reduction

\* C18: the confidence bounds are mean - h and mean + h for the half-width
\* h = 1.96 * std / sqrt(M) (on the grid: rounded down, sqrt(M) to two
\* decimals), so that ci_upper - ci_lower = 2 h and the interval is symmetric
\* about expected_profit; and std is the square root of the variance (on the
\* grid: std^2 <= variance < (std + 1)^2).
C18_ConfidenceBounds ==
    aggPc = "done" =>
        LET r == aggResult
            h == r.ci_upper - r.expected_profit
        IN  /\ h >= 0
            /\ r.ci_lower = r.expected_profit - h
            /\ r.ci_upper - r.ci_lower = 2 * h
            /\ r.ci_lower + r.ci_upper = 2 * r.expected_profit
            /\ r.std >= 0
            /\ r.std * r.std <= r.variance
            /\ r.variance < (r.std + 1) * (r.std + 1)
            /\ \E q \in 100..(100 * aggArgs.M) :
                  /\ q * q <= 10000 * aggArgs.M
                  /\ 10000 * aggArgs.M < (q + 1) * (q + 1)
                  /\ h * q <= 196 * r.std
                  /\ 196 * r.std < (h + 1) * q

\* several replicates of different profits were reduced: the variance is
\* positive and no square, the interval is proper
C18_Witness ==
    /\ aggPc = "done"
    /\ aggArgs.M >= 2
    /\ aggResult.std * aggResult.std < aggResult.variance
    /\ aggResult.ci_lower < aggResult.expected_profit
    /\ aggResult.expected_profit < 0

\* C21: the PeriodRecords of a replicate carry the indices 1, 2, ..., n;
\* record k has profit = revenue - cost and cumulative_profit the sum of the
\* profits of the records 1 .. k; and the replicate's total profit is the sum
\* over k of profit_k / (1 + discount_rate)^(k * validity_days) (all amounts
\* (1 + discount_rate)^HorizonCap-fold).
C21_LedgerArithmetic ==
    repPc \in {"loop", "done"} =>
        LET pd == repLoop.period_data
            rate == 1 + repArgs.params.discount_rate
        IN  /\ \A k \in 1..Len(pd) :
                  /\ pd[k].period = k
                  /\ pd[k].profit = pd[k].revenue - pd[k].cost
                  /\ pd[k].cumulative_profit
                        = SumSeq([j \in 1..k |-> pd[j].profit])
            /\ \E scale \in {Pow(rate, HorizonCap)} :
                  /\ SumSeq([k \in 1..Len(pd) |->
                                pd[k].profit * Pow(rate, HorizonCap - k * repArgs.pkg.validity_days)])
                        = repLoop.total
                  /\ \A k \in 1..Len(pd) :
                        Pow(rate, k * repArgs.pkg.validity_days)
                        * Pow(rate, HorizonCap - k * repArgs.pkg.validity_days) = scale
            /\ repPc = "done" =>
                  /\ repResult.total_profit = repLoop.total
                  /\ repResult.period_data = pd

\* a replicate of several periods, with costs, whose total is below the
\* undiscounted sum of its profits
C21_Witness ==
    /\ repPc = "done"
    /\ Len(repResult.period_data) >= 3
    /\ repArgs.params.discount_rate > 0
    /\ \A k \in 1..Len(repResult.period_data) :
          /\ repResult.period_data[k].cost > 0
          /\ repResult.period_data[k].profit > 0
    /\ repResult.total_profit
          < repResult.period_data[Len(repResult.period_data)].cumulative_profit
            * Pow(1 + repArgs.params.discount_rate, HorizonCap)

\* base_rate - decay * k clamped to [0, 1], in thousandths
ClampedRate(params, k) ==
    LET rate == params.base_renewal_rate - params.renewal_decay * k
    IN  IF rate < 0 THEN 0 ELSE IF rate > 1000 THEN 1000 ELSE rate

\* a renewal has been drawn after the last PeriodRecord of the ledger
RenewalDrawn ==
    /\ repPc \in {"loop", "done"}
    /\ repArgs.params.enable_renewal
    /\ Len(repLoop.period_data) >= 1
    /\ Len(repLoop.period_data) < repArgs.n_periods

\* the customers left by the renewal drawn after the last PeriodRecord, had
\* it used the rate of index k
RenewedWith(k) ==
    LET last == repLoop.period_data[Len(repLoop.period_data)]
    IN  Binomial(last.active_users, ClampedRate(repArgs.params, k), repArgs.seed,
                 repLoop.k - last.active_users)

\* C22 (as stated): the renewal drawn after the PeriodRecord of index k
\* (1-based) is Binomial(active_count, rate) with rate = base_rate - decay * k
\* clamped to [0, 1].
C22_RenewalRateOfRecordIndex ==
    RenewalDrawn => repLoop.n_active = RenewedWith(Len(repLoop.period_data))

\* C22 (amended): the renewal drawn after the PeriodRecord of index k
\* (1-based) is Binomial(active_count, rate) with
\* rate = base_rate - decay * (k - 1) clamped to [0, 1]: the first renewal
\* uses base_rate itself, and the rate is always a valid probability.
C22_RenewalRateOfLoopIndex ==
    RenewalDrawn =>
        /\ repLoop.n_active = RenewedWith(Len(repLoop.period_data) - 1)
        /\ ClampedRate(repArgs.params, Len(repLoop.period_data) - 1) \in 0..1000
        /\ RenewalRate(repArgs.params, Len(repLoop.period_data) - 1)
              = ClampedRate(repArgs.params, Len(repLoop.period_data) - 1)
        /\ repLoop.n_active \in 0..repLoop.period_data[Len(repLoop.period_data)].active_users

\* a renewal was drawn at a rate clamped to 0, after renewals at the base
\* rate and at a decayed rate had kept customers
C22_Witness ==
    /\ RenewalDrawn
    /\ Len(repLoop.period_data) >= 3
    /\ repArgs.params.base_renewal_rate
          - repArgs.params.renewal_decay * (Len(repLoop.period_data) - 1) < 0
    /\ repLoop.n_active = 0

\* the value of the package-level parameter d at the plus (sign = 1) or minus
\* (sign = -1) point ComputeSensitivity evaluates
EvaluatedAt(d, sign) == PerturbedPackage(sensArgs.pkg, d.name, d.step, sign)[d.name]

\* the step of the package-level parameter d, in steps of its grid
StepOf(d) == IF d.name = "validity_days" THEN 1 ELSE d.step

\* C24: for every target parameter with base value v and step h the two
\* evaluations are made at exactly v + h and v - h (validity: v + 1 and
\* v - 1), so that the divisor 2 h of the gradient is the distance between
\* the two evaluated points; also for data = 0, voice = 0, price < 1 and
\* validity = 1.
C24_DivisorIsDistance ==
    \A i \in 1..Len(sensResults) :
        IF param_deltas[i].name \in PackageLevel
        THEN /\ EvaluatedAt(param_deltas[i], 1)
                   = sensArgs.pkg[param_deltas[i].name] + StepOf(param_deltas[i])
             /\ EvaluatedAt(param_deltas[i], -1)
                   = sensArgs.pkg[param_deltas[i].name] - StepOf(param_deltas[i])
             /\ EvaluatedAt(param_deltas[i], 1) - EvaluatedAt(param_deltas[i], -1)
                   = 2 * StepOf(param_deltas[i])
        ELSE _perturb(sensArgs.params, param_deltas[i].name, param_deltas[i].step)
                     [param_deltas[i].name]
                - _perturb(sensArgs.params, param_deltas[i].name, -param_deltas[i].step)
                     [param_deltas[i].name]
                = 2 * param_deltas[i].step

\* ------------------------------------------- claims on the route's analyses

\* the fields in which the offer and the parameters of a point differ from
\* the caller's
Changed(pt) ==
    {f \in DOMAIN offer : pt.pkg[f] # offer[f]}
    \cup {f \in DOMAIN parameters : pt.params[f] # parameters[f]}

\* C25: during and after ComputeSensitivity and GenerateOfferTiers the offer
\* and the parameters the caller passed hold their original values, and the
\* plus and the minus evaluation of a target parameter differ from the
\* caller's originals in that parameter alone.
C25_CallerObjectsUntouched ==
    /\ sensPc # "idle" => (sensArgs.pkg = offer /\ sensArgs.params = parameters)
    /\ ladderPc # "idle" => (ladderArgs.pkg = offer /\ ladderArgs.params = parameters)
    /\ (sensPc = "loop" /\ sensIdx <= Len(param_deltas)) =>
          \A sign \in {1, -1} :
              Changed(PointOf(param_deltas[sensIdx], sign)) \subseteq {param_deltas[sensIdx].name}

\* both analyses have returned, the sensitivity having perturbed parameters
\* that matter, and the next-to-last target was evaluated at two points
\* differing from the originals
C25_Witness ==
    /\ sensPc = "done"
    /\ ladderPc = "done"
    /\ Len(ladderResult) >= 1
    /\ \E i \in 5..Len(sensResult) : sensResult[i].gradient.num # 0
    /\ Changed(PointOf(param_deltas[Len(param_deltas)], 1)) = {"base_renewal_rate"}
    /\ Changed(PointOf(param_deltas[1], -1)) = {"price"}

\* ------------------------------- claims on the tiers of SearchOptimalOffer

\* the candidate evaluation that appended entry k of the tier's evaluations,
\* run with m replicates
CandidateRun(k, m) ==
    LET x == Suggest(space, args.base_seed, minimizer, k - 1)
    IN  Evaluation(x, run_monte_carlo(PackageSpec(x.data_gb, x.voice_min,
                                                  x.validity_days, x.price),
                                      args.params, m,
                                      args.base_seed + (k - 1) * SeedStride))

\* C26: inside a tier every candidate evaluation uses a replicate count that
\* is not greater than the full replicate count M of the winner's
\* re-evaluation, and the k-th candidate of the tier (k from 0, restarting in
\* each tier) is evaluated with base seed base_seed + 997 k
C26_CandidateLighterThanFull ==
    (searchPc = "minimize" /\ evaluations # <<>>) =>
       /\ call_counter = Len(evaluations)
       /\ \E m \in 1..args.M :
             evaluations[Len(evaluations)] = CandidateRun(Len(evaluations), m)
       /\ eval_M(args.M) <= args.M

\* the caller's range [lo, hi] of dimension d
CallerRange(d) ==
    IF d = "price" THEN <<args.bounds.price_min, args.bounds.price_max>>
    ELSE IF d = "data_gb" THEN <<args.bounds.data_gb_min, args.bounds.data_gb_max>>
    ELSE IF d = "voice_min" THEN <<args.bounds.voice_min_min, args.bounds.voice_min_max>>
    ELSE <<args.bounds.validity_min, args.bounds.validity_max>>

\* the tiers whose search space has been built
Built == {t \in 1..3 : tierStatus[t] # "unsearched"}

Logged == {t \in 1..3 : tierStatus[t] \in {"ok", "re-evaluation fault"}}

\* the number of log entries that precede those of tier t
LogStart(t) == n_calls(args) * Cardinality({u \in Logged : u < t})

\* the risk-adjusted profit of the k-th candidate evaluation of tier t
TierValue(t, k) == global_evaluations[LogStart(t) + k].risk_adjusted_profit

\* the greatest value among the first k candidate evaluations of tier t
TierBestOf(t, k) ==
    CHOOSE v \in {TierValue(t, j) : j \in 1..k} : \A j \in 1..k : TierValue(t, j) <= v

\* the tier of the i-th recorded offer
TierOfOffer(i) == CHOOSE t \in OkTiers : Cardinality({u \in OkTiers : u < t}) = i - 1

\* the winning tier: the first of the recorded tiers whose full-resolution
\* risk-adjusted profit no recorded tier exceeds
WinningTier ==
    TierOfOffer(CHOOSE i \in DOMAIN all_offers :
        /\ \A j \in DOMAIN all_offers :
              all_offers[j].full_mc.risk_adjusted_profit
              <= all_offers[i].full_mc.risk_adjusted_profit
        /\ \A j \in 1..(i - 1) :
              all_offers[j].full_mc.risk_adjusted_profit
              < all_offers[i].full_mc.risk_adjusted_profit)

\* C28: the best-so-far trace of the outcome is that of the winning tier: one
\* entry per candidate evaluation of the tier, entry k the greatest
\* risk-adjusted profit among the tier's first k evaluations, hence
\* non-decreasing
C28_TraceOfWinningTier ==
    searchPc = "done" =>
       LET trace == searchResult.bo_convergence
       IN  /\ searchResult.optimal_package = returned[WinningTier]
           /\ Len(trace) = n_calls(args)
           /\ \A k \in 1..Len(trace) : trace[k] = TierBestOf(WinningTier, k)
           /\ \A k \in 1..(Len(trace) - 1) : trace[k] <= trace[k + 1]

\* a search has returned the trace of a later tier, which rose during the
\* tier and differs from the trace of the Budget tier
C28_Witness ==
    /\ searchPc = "done"
    /\ OkTiers = 1..3
    /\ WinningTier > 1
    /\ searchResult.bo_convergence[1] < searchResult.bo_convergence[n_calls(args)]
    /\ \E k \in 1..n_calls(args) : searchResult.bo_convergence[k] # TierBestOf(1, k)
    /\ \E k \in 2..n_calls(args) :
          TierValue(WinningTier, k) < searchResult.bo_convergence[k]

\* C29: the offers of the outcome are one per tier that succeeded and none
\* of a dropped tier, in the order of non-increasing full-resolution
\* risk-adjusted profit, and the first has the data, voice, validity and
\* price of the optimal offer
C29_OffersRanked ==
    searchPc = "done" =>
       LET os == searchResult.offers
           best == searchResult.optimal_package
       IN  /\ Len(os) = Cardinality(OkTiers)
           /\ \A t \in OkTiers :
                 \E i \in DOMAIN os :
                    /\ os[i].label = tier_specs[t].name
                    /\ os[i].risk_adjusted_profit
                       = run_monte_carlo(returned[t], args.params, args.M,
                                         args.base_seed).risk_adjusted_profit
           /\ \A i \in DOMAIN os : \E t \in OkTiers : os[i].label = tier_specs[t].name
           /\ \A i \in 1..(Len(os) - 1) :
                 os[i].risk_adjusted_profit >= os[i + 1].risk_adjusted_profit
           /\ os[1].data_gb = best.data_gb
           /\ os[1].voice_min = best.voice_min
           /\ os[1].validity_days = best.validity_days
           /\ os[1].price = best.price

\* a search that dropped its first tier has returned two offers, the Premium
\* tier's before the Standard tier's
C29_Witness ==
    /\ searchPc = "done"
    /\ tierStatus[1] \in Dropped
    /\ Len(searchResult.offers) = 2
    /\ searchResult.offers[1].label = "Premium"
    /\ searchResult.offers[2].label = "Standard"
    /\ searchResult.offers[1].risk_adjusted_profit
       > searchResult.offers[2].risk_adjusted_profit

\* the k-th evaluation record the minimizer issued in tier t
Issued(t, k) ==
    LET x == Suggest(tierSpace[t], args.base_seed, minimizer, k - 1)
    IN  Evaluation(x, run_monte_carlo(PackageSpec(x.data_gb, x.voice_min,
                                                  x.validity_days, x.price),
                                      args.params, eval_M(args.M),
                                      args.base_seed + (k - 1) * SeedStride))

\* the sequence of the sequences ss[1], ss[2], ... joined
RECURSIVE Concat(_)
Concat(ss) == IF ss = <<>> THEN <<>> ELSE Head(ss) \o Concat(Tail(ss))

\* the evaluation records of tier t if t is in the set ts, none otherwise
RecordsOf(t, ts) ==
    IF t \in ts THEN [k \in 1..n_calls(args) |-> Issued(t, k)] ELSE <<>>

\* C30: the evaluation log of the outcome is the concatenation, in tier
\* order, of the evaluation records of exactly the tiers that recorded a
\* TierResult, each tier's in the order the minimizer issued them; a dropped
\* tier, one that failed in its full re-evaluation included, contributes none
C30_LogOfRecordedTiers ==
    searchPc = "done" =>
       /\ Len(searchResult.bo_evaluations) = n_calls(args) * Cardinality(OkTiers)
       /\ searchResult.bo_evaluations
          = Concat([t \in 1..3 |-> RecordsOf(t, OkTiers)])


====
